---- MODULE Spec2Model ----
(***************************************************************************)
(* State-machine model of the ProtonOS GDB helper (tools/gdb-protonos.py): *)
(* the commands that locate the kernel's load address and the commands     *)
(* that walk and resolve the JIT registry of the live target.              *)
(*                                                                         *)
(* Target addresses and sizes are 64-bit quantities.  A value v is kept as *)
(* the pair <<hi, lo>> with v = hi * Limb + lo and 0 <= lo < Limb, so that *)
(* the comparisons against 0x10000, 0xFFFFFFFFFFFF and 0x100000 and the    *)
(* subtraction of the preferred image base are exact.  hi is negative for  *)
(* a negative difference (Python integers are unbounded).                  *)
(***************************************************************************)
EXTENDS Integers, Sequences, FiniteSets, TLC

VARIABLES
    symbol_offset,   \* _symbol_offset: the published load offset
    watches,         \* number of watchpoints armed in GDB's breakpoint table
    symfiles,        \* offsets at which build/x64/kernel_syms.elf is loaded
    located,         \* a locate has published the offset in this connection
    last,            \* what the last locate command read and did
    jit_symbols,     \* _jit_symbols: insertion-ordered dict, as a sequence
    pc,              \* "idle", or the loop a command is in: "walk" (the
                     \* scan), "search", "load"
    entry,           \* the walk's current node pointer
    visited,         \* the walk's visited set
    total_count,     \* the walk's total_count
    stop_reason,     \* the scan's stop_reason
    scan_ret,        \* value returned by the last scan, <<>> before any
    mem,             \* target memory as read by the current scan
    reads,           \* node addresses read by the current scan, in order
    prev_jit,        \* summary of _jit_symbols as the last scan found it
    pattern,         \* the pattern of the running search or load
    cursor,          \* position of the running search or load in the dict
    jit_last,        \* the last JIT command and what it reported
    phase,           \* gen_elf_syms.py: "module" (the loop over the module
                     \* dump), "publics" (the loop over the publics dump),
                     \* "build" (the tables), "done" (the file is written)
    sections,        \* sections: section number -> virtual address
    lines,           \* lines: the dump being read, as far as it is known
    eof,             \* lines is the whole dump
    pos,             \* i: index of the line the loop is at
    symbols,         \* symbols: (addr, size, name) of the functions
    data_symbols,    \* data_symbols: (addr, 0, name) of the data
    existing_names,  \* existing_names
    records,         \* the symbol records of the dumps, in input order
    output,          \* the bytes written to output_file
    elf_data,        \* parse_elf_symbol: the blob handed to it
    parsed,          \* parse_elf_symbol: what the last call returned
    mz_phase,        \* find_kernel_base_by_mz_scan: "idle" before the call,
                     \* "warmup", "recovery", "recovery_probe", "reconnect",
                     \* "reconnect_probe", "attempts", "done"
    warmup,          \* warmup: warm-up probes made
    recovery_attempt, \* recovery_attempt: recovery rounds completed
    probe_i,         \* i: probes made after the current recovery step
    memory_ready,    \* memory_ready
    rip,             \* pc: the instruction pointer last read, if any
    attempt,         \* attempt: scan attempts started
    checked,         \* checked: candidates read in the last attempt's sweep
    errors,          \* errors: candidates unreadable in that sweep
    mz_ret,          \* the value returned
    verified,        \* the last attempt read memory at the pointer
    target,          \* target memory as the last attempt found it
    priority_probed, \* priority addresses read by the last attempt, in order
    probed,          \* sweep candidates read by the last attempt
    delays,          \* the delay slept before each attempt, in order
    reconnects       \* "target remote" commands issued in the current
                     \* recovery round

locate_vars == <<symbol_offset, watches, symfiles, located, last>>
jit_vars == <<jit_symbols, pc, entry, visited, total_count, stop_reason,
              scan_ret, mem, reads, prev_jit, pattern, cursor, jit_last>>
syn_vars == <<phase, sections, lines, eof, pos, symbols, data_symbols,
              existing_names, records, output>>
parse_vars == <<elf_data, parsed>>
mz_vars == <<mz_phase, warmup, recovery_attempt, probe_i, memory_ready, rip,
             attempt, checked, errors, mz_ret, verified, target,
             priority_probed, probed, delays, reconnects>>
vars == <<symbol_offset, watches, symfiles, located, last, jit_symbols, pc,
          entry, visited, total_count, stop_reason, scan_ret, mem, reads,
          prev_jit, pattern, cursor, jit_last, phase, sections, lines, eof,
          pos, symbols, data_symbols, existing_names, records, output,
          elf_data, parsed, mz_phase, warmup, recovery_attempt, probe_i,
          memory_ready, rip, attempt, checked, errors, mz_ret, verified,
          target, priority_probed, probed, delays, reconnects>>

(***************************************************************************)
(* Wide integers.                                                          *)
(***************************************************************************)
Limb == 4096 * 4096

Zero == <<0, 0>>

WLt(a, b) == a[1] < b[1] \/ (a[1] = b[1] /\ a[2] < b[2])

WGt(a, b) == WLt(b, a)

WSub(a, b) ==
    IF a[2] >= b[2] THEN <<a[1] - b[1], a[2] - b[2]>>
    ELSE <<a[1] - b[1] - 1, a[2] - b[2] + Limb>>

WAdd(a, b) ==
    IF a[2] + b[2] >= Limb THEN <<a[1] + b[1] + 1, a[2] + b[2] - Limb>>
    ELSE <<a[1] + b[1], a[2] + b[2]>>

\* Python's None, and a present value: sequences of length 0 and 1.
None == <<>>

Some(v) == <<v>>

(***************************************************************************)
(* Constants of the script.                                                *)
(***************************************************************************)
\* 0x10000
GDB_DEBUG_MARKER_ADDR == <<0, 65536>>

\* 0x10008
GDB_DEBUG_IMAGEBASE_ADDR == <<0, 65544>>

\* 0xDEADBEEF
GDB_DEBUG_MARKER_VALUE == <<222, 11386607>>

\* 0x140000000
PE_IMAGE_BASE == <<320, 0>>

(***************************************************************************)
(* Bounds of the model.                                                    *)
(***************************************************************************)
\* proton-connect is not run while this many watchpoints are already armed.
MaxWatches == 2

(***************************************************************************)
(* The memory channel as the locate commands see it.                       *)
(***************************************************************************)
\* Values the marker cell at 0x10000 may hold: unwritten, the marker, and
\* 0xDEADBEEE.
MarkerValues == {Zero, GDB_DEBUG_MARKER_VALUE, <<222, 11386606>>}

\* Values the image-base cell at 0x10008 may hold: unwritten, the preferred
\* base 0x140000000, 0x140001000, and 0x7E00000 (below the preferred base).
BaseValues == {Zero, PE_IMAGE_BASE, <<320, 4096>>, <<7, 14680064>>}

\* gdb.parse_and_eval of a cell: a value, or gdb.error (None).
ReadResults(values) == {None} \cup {Some(v) : v \in values}

\* What find_kernel_base_by_mz_scan returns: None, or the positive candidate
\* address at which it read the signature.  reconnected: its recovery
\* sequence disconnected and reconnected the target.
MzScanResults ==
    [base : {None} \cup {Some(b) : b \in BaseValues \ {Zero}},
     reconnected : BOOLEAN]

\* The log of a locate command: what it read (marker, cell), the base it
\* settled on, how many watchpoints it armed and how many "delete" commands
\* it ran, whether it ran the signature scan, whether it opened a new
\* connection, whether the offset had already been published in the
\* connection the command ended in, and the offset before the command.
\* found: what the signature scan returned, None when it was not run.
NoLast ==
    [cmd |-> "none", outcome |-> "none", marker |-> None, cell |-> None,
     base |-> None, arms |-> 0, deletes |-> 0, scanned |-> FALSE,
     found |-> None, newconn |-> FALSE, relocate |-> FALSE, before |-> Zero]

Log(cmd, outcome) ==
    [NoLast EXCEPT !.cmd = cmd, !.outcome = outcome, !.before = symbol_offset]

(***************************************************************************)
(* proton-connect                                                          *)
(***************************************************************************)
\* offset = actual_base - PE_IMAGE_BASE
ConnectOffset_swapped(actual_base) == WSub(PE_IMAGE_BASE, actual_base)

ConnectOffset(actual_base) == WSub(actual_base, PE_IMAGE_BASE)

\* marker != GDB_DEBUG_MARKER_VALUE is the mismatch.
MarkerMatches_any(marker) == TRUE

MarkerMatches(marker) == marker = GDB_DEBUG_MARKER_VALUE

\* gdb.execute("delete"): removes every breakpoint and watchpoint.
DeleteWatchpoints_none(w) == w

DeleteWatchpoints(w) == 0

\* remote: "target remote" succeeded; m: the marker cell as read after
\* "continue" returned; b: the image-base cell as read; symOk:
\* add-symbol-file succeeded.  A gdb.error raised by gdb.execute or
\* gdb.parse_and_eval leaves invoke at that statement.
ConnectStep(remote, m, b, symOk) ==
    IF ~remote THEN
        /\ last' = Log("connect", "remote-error")
        /\ UNCHANGED <<symbol_offset, watches, symfiles, located>>
    ELSE IF m = None \/ ~MarkerMatches(m[1]) \/ b = None THEN
        /\ watches' = watches + 1
        /\ located' = FALSE
        /\ last' = [Log("connect",
                         IF m = None THEN "marker-error"
                         ELSE IF ~MarkerMatches(m[1])
                              THEN "marker-mismatch"
                         ELSE "base-error")
                     EXCEPT !.marker = m, !.arms = 1, !.newconn = TRUE]
        /\ UNCHANGED <<symbol_offset, symfiles>>
    ELSE
        LET offset == ConnectOffset(b[1]) IN
        /\ watches' = DeleteWatchpoints(watches + 1)
        /\ symfiles' = IF symOk THEN symfiles \cup {offset} ELSE symfiles
        /\ symbol_offset' = IF symOk THEN offset ELSE symbol_offset
        /\ located' = symOk
        /\ last' = [Log("connect", IF symOk THEN "ok" ELSE "symfile-error")
                     EXCEPT !.marker = m, !.cell = b, !.base = b, !.arms = 1,
                            !.deletes = 1, !.newconn = TRUE]

ProtonConnectInvoke ==
    /\ pc = "idle"
    /\ watches < MaxWatches
    /\ \E remote \in BOOLEAN, m \in ReadResults(MarkerValues),
          b \in ReadResults(BaseValues), symOk \in BOOLEAN :
            ConnectStep(remote, m, b, symOk)
    /\ UNCHANGED jit_vars
    /\ UNCHANGED syn_vars
    /\ UNCHANGED parse_vars
    /\ UNCHANGED mz_vars

(***************************************************************************)
(* proton-load-symbols                                                     *)
(***************************************************************************)
LoadOffset(actual_base) == WSub(actual_base, PE_IMAGE_BASE)

\* "Could not find kernel base": return, nothing published.
LoadSymbolsNotFound_fallthrough(cell, reconn) ==
    /\ symbol_offset' = LoadOffset(Zero)
    /\ symfiles' = symfiles \cup {LoadOffset(Zero)}
    /\ located' = TRUE
    /\ last' = [Log("load-symbols", "not-found")
                 EXCEPT !.cell = cell, !.scanned = TRUE, !.newconn = reconn]
    /\ UNCHANGED watches

LoadSymbolsNotFound(cell, reconn) ==
    /\ located' = (located /\ ~reconn)
    /\ last' = [Log("load-symbols", "not-found")
                 EXCEPT !.cell = cell, !.scanned = TRUE, !.newconn = reconn,
                        !.relocate = (located /\ ~reconn)]
    /\ UNCHANGED <<symbol_offset, symfiles, watches>>

LoadSymbolsLog(cell, actual_base, scanned, found, reconn, symOk) ==
    [Log("load-symbols", IF symOk THEN "ok" ELSE "symfile-error")
     EXCEPT !.cell = cell, !.base = Some(actual_base), !.scanned = scanned,
            !.found = found, !.newconn = reconn,
            !.relocate = (located /\ ~reconn)]

\* A rendering that publishes only the first offset of a connection.
LoadSymbolsPublish_once(cell, actual_base, scanned, found, reconn, symOk) ==
    LET offset == IF located /\ ~reconn THEN symbol_offset
                  ELSE LoadOffset(actual_base) IN
    /\ symbol_offset' = offset
    /\ symfiles' = IF symOk THEN symfiles \cup {offset} ELSE symfiles
    /\ located' = TRUE
    /\ last' = LoadSymbolsLog(cell, actual_base, scanned, found, reconn,
                               symOk)
    /\ UNCHANGED watches

\* _symbol_offset is assigned before add-symbol-file runs.
LoadSymbolsPublish(cell, actual_base, scanned, found, reconn, symOk) ==
    LET offset == LoadOffset(actual_base) IN
    /\ symbol_offset' = offset
    /\ symfiles' = IF symOk THEN symfiles \cup {offset} ELSE symfiles
    /\ located' = TRUE
    /\ last' = LoadSymbolsLog(cell, actual_base, scanned, found, reconn,
                               symOk)
    /\ UNCHANGED watches

\* if actual_base is None or actual_base == 0
NeedScan_unreadable(cell) == cell = None

NeedScan(cell) == cell = None \/ cell[1] = Zero

\* cell: the image-base cell as read (None: gdb.error, caught); scan: the
\* result of find_kernel_base_by_mz_scan, used only when the cell gave no
\* base.
LoadSymbolsStep(cell, scan, symOk) ==
    LET needScan == NeedScan(cell)
        found == IF needScan THEN scan.base ELSE None
        actual == IF needScan THEN found ELSE cell
        reconn == needScan /\ scan.reconnected
    IN  IF actual = None THEN LoadSymbolsNotFound(cell, reconn)
        ELSE LoadSymbolsPublish(cell, actual[1], needScan, found, reconn,
                                symOk)

ProtonLoadSymbolsInvoke ==
    /\ pc = "idle"
    /\ \E cell \in ReadResults(BaseValues), scan \in MzScanResults,
          symOk \in BOOLEAN :
            LoadSymbolsStep(cell, scan, symOk)
    /\ UNCHANGED jit_vars
    /\ UNCHANGED syn_vars
    /\ UNCHANGED parse_vars
    /\ UNCHANGED mz_vars

(***************************************************************************)
(* Blob bytes.  A blob read from the target is [size, data]: size bytes,   *)
(* of which the first Len(data) are data and the rest are zero.  Offsets   *)
(* are Python's, counted from 0.                                           *)
(***************************************************************************)
ByteAt(b, k) == IF k < Len(b.data) THEN b.data[k + 1] ELSE 0

\* len(elf_data[a:a+n]) = n: struct.unpack has the bytes it needs.
HasBytes(b, a, n) == a >= 0 /\ a + n <= b.size

\* struct.unpack of n bytes at a, little-endian, n <= 4 (top byte < 128).
RECURSIVE ULE(_, _, _)
ULE(b, a, n) == IF n = 0 THEN 0 ELSE ByteAt(b, a) + 256 * ULE(b, a + 1, n - 1)

\* struct.unpack('<Q', ...) as a wide integer.
U64(b, a) == <<ULE(b, a + 3, 4), ULE(b, a, 3)>>

\* A wide integer used as an offset or a length: one that exceeds Limb is
\* past the end of every blob, as Limb is.
AsOffset(w) == IF w[1] = 0 THEN w[2] ELSE Limb

\* elf_data[idx:] up to the first zero byte or the end of the blob.
RECURSIVE CString(_, _)
CString(b, idx) ==
    IF idx < b.size /\ ByteAt(b, idx) # 0
    THEN <<ByteAt(b, idx)>> \o CString(b, idx + 1)
    ELSE <<>>

(***************************************************************************)
(* parse_elf_symbol.  The result is [status, name, value]: "ok" with the   *)
(* name and st_value, "none" for (None, None), "exc" for an exception      *)
(* (struct.error on a short slice, IndexError).                            *)
(***************************************************************************)
ParseNone == [status |-> "none", name |-> <<>>, value |-> Zero]

ParseExc == [status |-> "exc", name |-> <<>>, value |-> Zero]

\* elf_data[:4] != b'\x7fELF'
BadMagic(b) ==
    \/ b.size < 4
    \/ <<ByteAt(b, 0), ByteAt(b, 1), ByteAt(b, 2), ByteAt(b, 3)>>
           # <<127, 69, 76, 70>>

\* The section-header loop from index i on; acc = [symtab_offset,
\* symtab_size, strtab_offset], each None or Some, exc set by a short read.
RECURSIVE ScanSections(_, _, _, _, _)
ScanSections(b, e_shoff, e_shnum, i, acc) ==
    IF i >= e_shnum THEN acc
    ELSE LET shdr_off == e_shoff + i * 64 IN
         IF ~HasBytes(b, shdr_off + 4, 4) \/ ~HasBytes(b, shdr_off + 24, 8)
                \/ ~HasBytes(b, shdr_off + 32, 8)
         THEN [acc EXCEPT !.exc = TRUE]
         ELSE LET sh_type == ULE(b, shdr_off + 4, 4)
                  sh_offset == AsOffset(U64(b, shdr_off + 24))
                  sh_size == AsOffset(U64(b, shdr_off + 32))
              IN  ScanSections(b, e_shoff, e_shnum, i + 1,
                    IF sh_type = 2
                    THEN [acc EXCEPT !.symtab_offset = Some(sh_offset),
                                     !.symtab_size = Some(sh_size)]
                    ELSE IF sh_type = 3 /\ acc.strtab_offset = None
                    THEN [acc EXCEPT !.strtab_offset = Some(sh_offset)]
                    ELSE acc)

\* A rendering that compares the whole st_info byte.
SymType_whole(st_info) == st_info

\* sym_type = st_info & 0xf
SymType(st_info) == st_info % 16

\* for i in range(1, num_symbols): the first STT_FUNC symbol from i on.
RECURSIVE FirstFunc(_, _, _, _, _)
FirstFunc(b, symtab_offset, strtab_offset, num_symbols, i) ==
    IF i >= num_symbols THEN ParseNone
    ELSE LET sym_off == symtab_offset + i * 24 IN
         IF ~HasBytes(b, sym_off, 4) \/ ~HasBytes(b, sym_off + 4, 1)
                \/ ~HasBytes(b, sym_off + 8, 8)
         THEN ParseExc
         ELSE LET st_name == ULE(b, sym_off, 4)
                  st_info == ByteAt(b, sym_off + 4)
                  st_value == U64(b, sym_off + 8)
              IN  IF SymType(st_info) = 2
                  THEN [status |-> "ok",
                        name |-> CString(b, strtab_offset + st_name),
                        value |-> st_value]
                  ELSE FirstFunc(b, symtab_offset, strtab_offset,
                                 num_symbols, i + 1)

parse_elf_symbol(b) ==
    IF BadMagic(b) THEN ParseNone
    ELSE IF ~HasBytes(b, 40, 8) \/ ~HasBytes(b, 60, 2) \/ ~HasBytes(b, 62, 2)
    THEN ParseExc
    ELSE LET e_shoff == AsOffset(U64(b, 40))
             e_shnum == ULE(b, 60, 2)
             secs == ScanSections(b, e_shoff, e_shnum, 0,
                        [symtab_offset |-> None, symtab_size |-> None,
                         strtab_offset |-> None, exc |-> FALSE])
         IN  IF secs.exc THEN ParseExc
             ELSE IF secs.symtab_offset = None \/ secs.strtab_offset = None
             THEN ParseNone
             ELSE FirstFunc(b, secs.symtab_offset[1], secs.strtab_offset[1],
                            secs.symtab_size[1] \div 24, 1)

(***************************************************************************)
(* Blob images the target may hold.                                        *)
(***************************************************************************)
RECURSIVE Zeros(_)
Zeros(n) == IF n <= 0 THEN <<>> ELSE <<0>> \o Zeros(n - 1)

\* n little-endian bytes of v.
RECURSIVE LE(_, _)
LE(v, n) == IF n = 0 THEN <<>> ELSE <<v % 256>> \o LE(v \div 256, n - 1)

LE64(w) == LE(w[2], 3) \o LE(w[1], 5)

RECURSIVE Flatten(_)
Flatten(ss) == IF ss = <<>> THEN <<>> ELSE Head(ss) \o Flatten(Tail(ss))

\* One 24-byte symbol record.
SymRecord(st_name, st_info, st_value) ==
    LE(st_name, 4) \o <<st_info, 0>> \o LE(1, 2) \o LE64(st_value) \o Zeros(8)

\* An image: a 64-byte header with the given first four bytes, e_shoff = 64
\* and e_shnum = Len(types); one 64-byte section header per type, the
\* headers of type 2 describing the symbol table and those of type 3 the
\* string table; the symbol records; the string table.
ElfImage(magic, types, syms, strtab) ==
    LET n == Len(types)
        symoff == 64 + 64 * n
        symsize == 24 * Len(syms)
        stroff == symoff + symsize
        Shdr(t) ==
            Zeros(4) \o LE(t, 4) \o Zeros(16)
              \o LE(IF t = 2 THEN symoff ELSE IF t = 3 THEN stroff ELSE 0, 8)
              \o LE(IF t = 2 THEN symsize ELSE IF t = 3 THEN Len(strtab) ELSE 0, 8)
              \o Zeros(24)
    IN  magic \o Zeros(36) \o LE(64, 8) \o Zeros(12) \o LE(n, 2) \o LE(0, 2)
          \o Flatten([i \in 1..n |-> Shdr(types[i])])
          \o Flatten(syms) \o strtab

ElfMagic == <<127, 69, 76, 70>>

\* "\0Foo\0Bar\0"
FooBarStrtab == <<0, 70, 111, 111, 0, 66, 97, 114, 0>>

NameFoo == <<70, 111, 111>>

NameBar == <<66, 97, 114>>

\* Code addresses 0x140002010 and 0x140003020.
CodeAddrA == <<320, 8208>>

CodeAddrB == <<320, 12320>>

\* One global function "Foo" after the null symbol.
ImageFoo ==
    ElfImage(ElfMagic, <<0, 2, 3>>,
             <<SymRecord(0, 0, Zero), SymRecord(1, 18, CodeAddrA)>>,
             FooBarStrtab)

\* A data symbol "Foo", then the function "Bar".
ImageBar ==
    ElfImage(ElfMagic, <<0, 2, 3>>,
             <<SymRecord(0, 0, Zero), SymRecord(1, 17, CodeAddrA),
               SymRecord(5, 18, CodeAddrB)>>,
             FooBarStrtab)

\* Not an ELF image.
ImageBadMagic ==
    ElfImage(<<77, 90, 0, 0>>, <<0, 2, 3>>,
             <<SymRecord(0, 0, Zero), SymRecord(1, 18, CodeAddrA)>>,
             FooBarStrtab)

\* No string-table section.
ImageNoStrtab ==
    ElfImage(ElfMagic, <<0, 2>>,
             <<SymRecord(0, 0, Zero), SymRecord(1, 18, CodeAddrA)>>,
             FooBarStrtab)

\* No symbol-table section.
ImageNoSymtab ==
    ElfImage(ElfMagic, <<0, 3>>,
             <<SymRecord(0, 0, Zero), SymRecord(1, 18, CodeAddrA)>>,
             FooBarStrtab)

ElfImages ==
    {ImageFoo, ImageBar, ImageBadMagic, ImageNoStrtab, ImageNoSymtab}

(***************************************************************************)
(* parse_elf_symbol called on its own.  The blobs are built from every     *)
(* combination of signature, section-header list, symbol records and       *)
(* truncation below.                                                       *)
(***************************************************************************)
\* Longest symbol table of a blob.
MaxSymbols == 3

ParseMagics == {ElfMagic, <<77, 90, 0, 0>>}

\* sh_type of the section headers: 2 = SHT_SYMTAB, 3 = SHT_STRTAB.
ParseSectionTypes == {<<0, 2, 3>>, <<0, 3, 2>>, <<0, 2>>, <<0, 3>>}

\* The null symbol; global functions "Foo" and "Bar"; the global object
\* "Foo"; the local function "Bar".
ParseSymRecords ==
    {SymRecord(0, 0, Zero), SymRecord(1, 18, CodeAddrA),
     SymRecord(5, 18, CodeAddrB), SymRecord(1, 17, CodeAddrA),
     SymRecord(5, 2, CodeAddrB)}

RECURSIVE SeqsUpTo(_, _)
SeqsUpTo(S, n) ==
    IF n = 0 THEN {<<>>}
    ELSE LET shorter == SeqsUpTo(S, n - 1) IN
         shorter \cup {Append(q, x) : q \in shorter, x \in S}

\* Bytes missing at the end of a blob: none, or the string table and the
\* last 12 bytes of the symbol table.
ParseCuts == {0, Len(FooBarStrtab) + 12}

ParseBlobs ==
    {LET img == ElfImage(m, t, q, FooBarStrtab)
         size == IF c < Len(img) THEN Len(img) - c ELSE Len(img)
     IN  [size |-> size, data |-> SubSeq(img, 1, size)] :
        m \in ParseMagics, t \in ParseSectionTypes,
        q \in SeqsUpTo(ParseSymRecords, MaxSymbols), c \in ParseCuts}

NoBlob == [size |-> 0, data |-> <<>>]

\* A caller has read a blob.
ReadElfData ==
    /\ elf_data = NoBlob
    /\ \E b \in ParseBlobs : elf_data' = b
    /\ parsed' = None
    /\ UNCHANGED locate_vars
    /\ UNCHANGED jit_vars
    /\ UNCHANGED syn_vars
    /\ UNCHANGED mz_vars

\* name, code_addr = parse_elf_symbol(elf_data)
ParseElfSymbolCall ==
    /\ elf_data # NoBlob
    /\ parsed = None
    /\ parsed' = Some(parse_elf_symbol(elf_data))
    /\ UNCHANGED elf_data
    /\ UNCHANGED locate_vars
    /\ UNCHANGED jit_vars
    /\ UNCHANGED syn_vars
    /\ UNCHANGED mz_vars

(***************************************************************************)
(* The JIT registry in target memory.                                      *)
(***************************************************************************)
\* Node pointers beyond the two window-boundary nodes.
ExtraNodes == 0

\* 0x10000 and 0xFFFFFFFFFFFF, the lowest and highest pointers the walker
\* accepts, and 0x20000, 0x30000, ...
NodeAddrs ==
    {<<0, 65536>>, <<16777215, 16777215>>}
        \cup {<<0, 65536 * (i + 1)>> : i \in 1..ExtraNodes}

\* 0xFFFF and 0x1000000000000: just outside the window.
LowPtr == <<0, 65535>>

HighPtr == <<16777216, 0>>

Ptrs == NodeAddrs \cup {Zero, LowPtr, HighPtr}

\* Blob addresses 0x200000 and 0x300000.
BlobAddrA == <<0, 2097152>>

BlobAddrB == <<0, 3145728>>

\* A plausible blob size (0x200), 0xFFFFF and 0x100000.
SmallSize == <<0, 512>>

SizeBelowCeiling == <<0, 1048575>>

SizeAtCeiling == <<0, 1048576>>

\* (symfile_addr, symfile_size) pairs a node may carry.
BlobFields ==
    {<<Zero, SmallSize>>, <<BlobAddrA, Zero>>, <<BlobAddrA, SmallSize>>,
     <<BlobAddrA, SizeBelowCeiling>>, <<BlobAddrB, SizeAtCeiling>>,
     <<BlobAddrB, SmallSize>>}

\* What read_memory(entry, 32) gives: the four unpacked fields (prev_entry is
\* read and never used), gdb.MemoryError, or another exception.
NodeReads ==
    [status : {"ok"}, next : Ptrs, blob : BlobFields]
        \cup [status : {"memerr", "err"}, next : {Zero}, blob : {<<Zero, Zero>>}]

\* The descriptor: &__proton_jit_descriptor may fail to evaluate, the 24-byte
\* read may fail, or first_entry is read (version, action and relevant_entry
\* are read and only printed).
DescReads ==
    [status : {"ok"}, first_entry : Ptrs]
        \cup [status : {"evalerr", "memerr"}, first_entry : {Zero}]

NoDesc == [status |-> "ok", first_entry |-> Zero]

\* mem.nodes: the node records the scan has read, as <<address, record>>.
Known(m, addr) == \E p \in m.nodes : p[1] = addr

Lookup(m, addr) == (CHOOSE p \in m.nodes : p[1] = addr)[2]

\* The records a read of addr may return: target memory does not change
\* during a scan, so an address read before returns what it returned.
ReadChoices(m, addr) ==
    IF Known(m, addr) THEN {Lookup(m, addr)} ELSE NodeReads

(***************************************************************************)
(* _jit_symbols: a dict keyed by elf_addr, iterated in insertion order.    *)
(***************************************************************************)
NewEntry(symfile_addr, symfile_size) ==
    [elf_addr |-> symfile_addr, elf_size |-> symfile_size, loaded |-> FALSE,
     name |-> None, code_addr |-> None]

HasKey(d, key) == \E i \in 1..Len(d) : d[i].elf_addr = key

\* d[key] = rec: an existing key keeps its position.
DictSet(d, key, rec) ==
    IF HasKey(d, key)
    THEN [i \in 1..Len(d) |-> IF d[i].elf_addr = key THEN rec ELSE d[i]]
    ELSE Append(d, rec)

Keys(d) == {d[i].elf_addr : i \in 1..Len(d)}

\* Which keys a dict holds, which of them are resolved, which are loaded.
Summary(d) ==
    [keys |-> Keys(d),
     named |-> {d[i].elf_addr : i \in {j \in 1..Len(d) : d[j].name # None}},
     loaded |-> {d[i].elf_addr : i \in {j \in 1..Len(d) : d[j].loaded}}]

(***************************************************************************)
(* _scan_jit_list                                                          *)
(***************************************************************************)
Reason(kind, addr) == [kind |-> kind, addr |-> addr]

NoReason == Reason("none", Zero)

\* _jit_symbols = {}  # Clear and rescan
FreshSymbols_keep(old) == old

FreshSymbols(old) == <<>>

\* if first_entry == 0
FirstEntryIsNull_never(first_entry) == FALSE

FirstEntryIsNull(first_entry) == first_entry = Zero

\* if entry in visited
AlreadyVisited_never(e, v) == FALSE

AlreadyVisited(e, v) == e \in v

\* if entry < 0x10000
TooLow_off(e) == FALSE

TooLow(e) == WLt(e, <<0, 65536>>)

\* if entry > 0xFFFFFFFFFFFF
TooHigh(e) == WGt(e, <<16777215, 16777215>>)

\* if symfile_addr != 0 and symfile_size != 0 and symfile_size < 0x100000
SaneBlob_inclusive(symfile_addr, symfile_size) ==
    /\ symfile_addr # Zero
    /\ symfile_size # Zero
    /\ ~WGt(symfile_size, <<0, 1048576>>)

SaneBlob(symfile_addr, symfile_size) ==
    /\ symfile_addr # Zero
    /\ symfile_size # Zero
    /\ WLt(symfile_size, <<0, 1048576>>)

\* stop_reason = f"hit inaccessible memory at {hex(entry)} ..."
InaccessibleReason_noaddr(e) == Reason("hit inaccessible memory", Zero)

InaccessibleReason(e) == Reason("hit inaccessible memory", e)

\* The function returns: return len(_jit_symbols) (or the literal 0 of the
\* empty-registry return).  The locals are gone.
Finish(jit, reason, ret) ==
    /\ pc' = "idle"
    /\ jit_symbols' = jit
    /\ stop_reason' = reason
    /\ scan_ret' = Some(ret)
    /\ entry' = Zero
    /\ visited' = {}
    /\ total_count' = 0

\* From the call to the first test of the while loop.
ScanBegin(desc) ==
    LET fresh == FreshSymbols(jit_symbols) IN
    /\ prev_jit' = Summary(jit_symbols)
    /\ reads' = <<>>
    /\ mem' = [desc |-> desc, nodes |-> {}]
    /\ IF desc.status # "ok"
       THEN Finish(fresh, Reason("initialization error", Zero), Len(fresh))
       ELSE IF FirstEntryIsNull(desc.first_entry)
       THEN Finish(fresh, Reason("first_entry is NULL", Zero), 0)
       ELSE /\ pc' = "walk"
            /\ jit_symbols' = fresh
            /\ entry' = desc.first_entry
            /\ visited' = {}
            /\ total_count' = 0
            /\ stop_reason' = NoReason
            /\ scan_ret' = None

\* One test of the while condition and, when it holds, one pass through the
\* loop body; a break or the loop's end runs on to the return.
WalkStep ==
    /\ pc = "walk"
    /\ UNCHANGED <<prev_jit, pattern, cursor, jit_last, symbol_offset, watches,
                   symfiles, located, last>>
    /\ UNCHANGED syn_vars
    /\ UNCHANGED parse_vars
    /\ UNCHANGED mz_vars
    /\ IF entry = Zero THEN
           /\ Finish(jit_symbols, Reason("reached end of list", Zero),
                     Len(jit_symbols))
           /\ UNCHANGED <<mem, reads>>
       ELSE IF AlreadyVisited(entry, visited) THEN
           /\ Finish(jit_symbols, Reason("cycle detected", entry),
                     Len(jit_symbols))
           /\ UNCHANGED <<mem, reads>>
       ELSE IF TooLow(entry) THEN
           /\ Finish(jit_symbols, Reason("invalid entry pointer (too low)", entry),
                     Len(jit_symbols))
           /\ UNCHANGED <<mem, reads>>
       ELSE IF TooHigh(entry) THEN
           /\ Finish(jit_symbols, Reason("invalid entry pointer (too high)", entry),
                     Len(jit_symbols))
           /\ UNCHANGED <<mem, reads>>
       ELSE \E r \in ReadChoices(mem, entry) :
           /\ reads' = Append(reads, entry)
           /\ mem' = [mem EXCEPT !.nodes = @ \cup {<<entry, r>>}]
           /\ IF r.status = "memerr" THEN
                  Finish(jit_symbols, InaccessibleReason(entry), Len(jit_symbols))
              ELSE IF r.status = "err" THEN
                  Finish(jit_symbols, Reason("error at entry", entry),
                         Len(jit_symbols))
              ELSE
                  /\ jit_symbols' =
                        IF SaneBlob(r.blob[1], r.blob[2])
                        THEN DictSet(jit_symbols, r.blob[1],
                                     NewEntry(r.blob[1], r.blob[2]))
                        ELSE jit_symbols
                  /\ entry' = r.next
                  /\ visited' = visited \cup {entry}
                  /\ total_count' = total_count + 1
                  /\ UNCHANGED <<pc, stop_reason, scan_ret>>

(***************************************************************************)
(* What a JIT command reported: the elf_addr of the entries a search       *)
(* listed, of those a load loaded, the code addresses naming the files a   *)
(* load wrote, its error count, and the count a clear printed.             *)
(***************************************************************************)
\* resolve: the last call of _resolve_jit_symbol the command made: the entry
\* it was given, what it read from the target and what it returned.
Report(cmd) ==
    [cmd |-> cmd, pattern |-> <<>>, matched |-> {}, loaded |-> {},
     written |-> {}, errors |-> 0, cleared |-> 0, resolve |-> None]

\* The record of the last scan (its stop_reason, return value, the memory it
\* read, the dict it replaced) is kept until the next command.
ScanLogCleared ==
    /\ stop_reason' = NoReason
    /\ scan_ret' = None
    /\ mem' = [desc |-> NoDesc, nodes |-> {}]
    /\ reads' = <<>>
    /\ prev_jit' = Summary(<<>>)

(***************************************************************************)
(* proton-jit-scan                                                         *)
(***************************************************************************)
\* if _symbol_offset == 0: "Symbol offset not set"; return
ProtonJitScanInvoke ==
    /\ pc = "idle"
    /\ UNCHANGED <<symbol_offset, watches, symfiles, located, last>>
    /\ UNCHANGED syn_vars
    /\ UNCHANGED parse_vars
    /\ UNCHANGED mz_vars
    /\ IF symbol_offset = Zero
       THEN /\ jit_last' = Report("scan-refused")
            /\ ScanLogCleared
            /\ UNCHANGED <<jit_symbols, pc, entry, visited, total_count,
                           pattern, cursor>>
       ELSE /\ jit_last' = Report("scan")
            /\ UNCHANGED <<pattern, cursor>>
            /\ \E desc \in DescReads : ScanBegin(desc)

(***************************************************************************)
(* _resolve_jit_symbol                                                     *)
(***************************************************************************)
\* read_memory(info['elf_addr'], info['elf_size']): gdb.MemoryError, or
\* elf_size bytes that begin with one of the images.
BlobReads(info) ==
    {[status |-> "memerr", blob |-> [size |-> 0, data |-> <<>>]]}
        \cup {[status |-> "ok",
               blob |-> [size |-> AsOffset(info.elf_size), data |-> img]] :
                 img \in {i \in ElfImages : Len(i) <= AsOffset(info.elf_size)}}

\* if info['name'] is not None: return True, before any read.
NoRead == [status |-> "cached", blob |-> [size |-> 0, data |-> <<>>]]

ResolveReads_always(info) == BlobReads(info)

\* The read is made only for an entry without a name.
ResolveReads(info) ==
    IF info.name # None THEN {NoRead} ELSE BlobReads(info)

\* A rendering that stores the code address under the entry's blob address.
ResolveJitSymbol_rekey(info, rd) ==
    IF info.name # None THEN [info |-> info, ok |-> TRUE]
    ELSE IF rd.status # "ok" THEN [info |-> info, ok |-> FALSE]
    ELSE LET r == parse_elf_symbol(rd.blob) IN
         IF r.status = "ok" /\ r.name # <<>> /\ r.value # Zero
         THEN [info |-> [info EXCEPT !.name = Some(r.name),
                                     !.elf_addr = r.value,
                                     !.code_addr = Some(r.value)],
               ok |-> TRUE]
         ELSE [info |-> info, ok |-> FALSE]

\* A rendering without the test "if name and code_addr".
ResolveJitSymbol_unchecked(info, rd) ==
    IF info.name # None THEN [info |-> info, ok |-> TRUE]
    ELSE IF rd.status # "ok" THEN [info |-> info, ok |-> FALSE]
    ELSE LET r == parse_elf_symbol(rd.blob) IN
         IF r.status # "exc"
         THEN [info |-> [info EXCEPT !.name = Some(r.name),
                                     !.code_addr = Some(r.value)],
               ok |-> TRUE]
         ELSE [info |-> info, ok |-> FALSE]

\* The record of one call.
ResolveLog(info, rd, r) ==
    Some([addr |-> info.elf_addr, rd |-> rd, ok |-> r.ok])

\* [info, ok]: the entry afterwards and the value returned.
ResolveJitSymbol(info, rd) ==
    IF info.name # None THEN [info |-> info, ok |-> TRUE]
    ELSE IF rd.status # "ok" THEN [info |-> info, ok |-> FALSE]
    ELSE LET r == parse_elf_symbol(rd.blob) IN
         IF r.status = "ok" /\ r.name # <<>> /\ r.value # Zero
         THEN [info |-> [info EXCEPT !.name = Some(r.name),
                                     !.code_addr = Some(r.value)],
               ok |-> TRUE]
         ELSE [info |-> info, ok |-> FALSE]

(***************************************************************************)
(* Patterns: arg.strip().lower(), and "pattern in info['name'].lower()".   *)
(***************************************************************************)
\* "", "foo", "ba"
Patterns == {<<>>, <<102, 111, 111>>, <<98, 97>>}

Lower(str) == [i \in 1..Len(str) |-> IF str[i] >= 65 /\ str[i] <= 90
                                     THEN str[i] + 32 ELSE str[i]]

Contains(pat, str) ==
    \E i \in 0..(Len(str) - Len(pat)) : SubSeq(str, i + 1, i + Len(pat)) = pat

(***************************************************************************)
(* proton-jit-search                                                       *)
(***************************************************************************)
\* "No JIT symbols registered yet" and the usage message return at once.
ProtonJitSearchInvoke ==
    /\ pc = "idle"
    /\ UNCHANGED <<symbol_offset, watches, symfiles, located, last>>
    /\ UNCHANGED syn_vars
    /\ UNCHANGED parse_vars
    /\ UNCHANGED mz_vars
    /\ ScanLogCleared
    /\ UNCHANGED <<jit_symbols, entry, visited, total_count>>
    /\ \E pat \in Patterns :
        /\ jit_last' = [Report("search") EXCEPT !.pattern = pat]
        /\ IF jit_symbols = <<>> \/ pat = <<>>
           THEN UNCHANGED <<pc, pattern, cursor>>
           ELSE pc' = "search" /\ pattern' = pat /\ cursor' = 1

\* One pass through the loop over _jit_symbols.items().
SearchStep ==
    /\ pc = "search"
    /\ UNCHANGED <<symbol_offset, watches, symfiles, located, last>>
    /\ UNCHANGED syn_vars
    /\ UNCHANGED parse_vars
    /\ UNCHANGED mz_vars
    /\ UNCHANGED <<entry, visited, total_count, stop_reason, scan_ret, mem,
                   reads, prev_jit>>
    /\ \E rd \in ResolveReads(jit_symbols[cursor]) :
        LET r == ResolveJitSymbol(jit_symbols[cursor], rd) IN
        /\ jit_symbols' = [jit_symbols EXCEPT ![cursor] = r.info]
        /\ jit_last' =
              [jit_last EXCEPT
                 !.resolve = ResolveLog(jit_symbols[cursor], rd, r),
                 !.matched =
                    IF r.ok /\ Contains(pattern, Lower(r.info.name[1]))
                    THEN @ \cup {r.info.elf_addr} ELSE @]
    /\ IF cursor = Len(jit_symbols)
       THEN pc' = "idle" /\ cursor' = 0 /\ pattern' = <<>>
       ELSE pc' = "search" /\ cursor' = cursor + 1 /\ UNCHANGED pattern

(***************************************************************************)
(* proton-jit-load                                                         *)
(***************************************************************************)
ProtonJitLoadInvoke ==
    /\ pc = "idle"
    /\ UNCHANGED <<symbol_offset, watches, symfiles, located, last>>
    /\ UNCHANGED syn_vars
    /\ UNCHANGED parse_vars
    /\ UNCHANGED mz_vars
    /\ ScanLogCleared
    /\ UNCHANGED <<jit_symbols, entry, visited, total_count>>
    /\ \E pat \in Patterns :
        /\ jit_last' = [Report("load") EXCEPT !.pattern = pat]
        /\ IF jit_symbols = <<>>
           THEN UNCHANGED <<pc, pattern, cursor>>
           ELSE pc' = "load" /\ pattern' = pat /\ cursor' = 1

\* The second read of the blob, the file write and add-symbol-file: "ok",
\* "memerr" (the read raised), "symerr" (the file is written and
\* add-symbol-file raised).
LoadOutcomes == {"ok", "memerr", "symerr"}

\* A rendering without the test.
AlreadyLoaded_never(info) == FALSE

\* if info['loaded']: continue
AlreadyLoaded(info) == info.loaded

\* One pass through the loop over _jit_symbols.items().
LoadStep ==
    /\ pc = "load"
    /\ UNCHANGED <<symbol_offset, watches, symfiles, located, last>>
    /\ UNCHANGED syn_vars
    /\ UNCHANGED parse_vars
    /\ UNCHANGED mz_vars
    /\ UNCHANGED <<entry, visited, total_count, stop_reason, scan_ret, mem,
                   reads, prev_jit>>
    /\ IF AlreadyLoaded(jit_symbols[cursor])
       THEN /\ jit_last' = [jit_last EXCEPT !.resolve = None]
            /\ UNCHANGED jit_symbols
       ELSE \E rd \in ResolveReads(jit_symbols[cursor]) :
            LET r == ResolveJitSymbol(jit_symbols[cursor], rd)
                called == ResolveLog(jit_symbols[cursor], rd, r)
            IN
            IF ~r.ok
            THEN /\ jit_symbols' = [jit_symbols EXCEPT ![cursor] = r.info]
                 /\ jit_last' = [jit_last EXCEPT !.resolve = called,
                                                  !.errors = @ + 1]
            ELSE IF pattern # <<>> /\ ~Contains(pattern, Lower(r.info.name[1]))
            THEN /\ jit_symbols' = [jit_symbols EXCEPT ![cursor] = r.info]
                 /\ jit_last' = [jit_last EXCEPT !.resolve = called]
            ELSE \E out \in LoadOutcomes :
                 /\ jit_symbols' =
                       [jit_symbols EXCEPT
                          ![cursor] = [r.info EXCEPT !.loaded = (out = "ok")]]
                 /\ jit_last' =
                       [jit_last EXCEPT
                          !.resolve = called,
                          !.written = IF out = "memerr" THEN @
                                      ELSE @ \cup {r.info.code_addr[1]},
                          !.loaded = IF out = "ok"
                                     THEN @ \cup {r.info.elf_addr} ELSE @,
                          !.errors = IF out = "ok" THEN @ ELSE @ + 1]
    /\ IF cursor = Len(jit_symbols)
       THEN pc' = "idle" /\ cursor' = 0 /\ pattern' = <<>>
       ELSE pc' = "load" /\ cursor' = cursor + 1 /\ UNCHANGED pattern

(***************************************************************************)
(* proton-jit-list, proton-jit-clear                                       *)
(***************************************************************************)
ProtonJitListInvoke ==
    /\ pc = "idle"
    /\ UNCHANGED <<symbol_offset, watches, symfiles, located, last>>
    /\ UNCHANGED syn_vars
    /\ UNCHANGED parse_vars
    /\ UNCHANGED mz_vars
    /\ ScanLogCleared
    /\ jit_last' = Report("list")
    /\ UNCHANGED <<jit_symbols, pc, entry, visited, total_count, pattern, cursor>>

ProtonJitClearInvoke ==
    /\ pc = "idle"
    /\ UNCHANGED <<symbol_offset, watches, symfiles, located, last>>
    /\ UNCHANGED syn_vars
    /\ UNCHANGED parse_vars
    /\ UNCHANGED mz_vars
    /\ ScanLogCleared
    /\ jit_symbols' = <<>>
    /\ jit_last' = [Report("clear") EXCEPT !.cleared = Len(jit_symbols)]
    /\ UNCHANGED <<pc, entry, visited, total_count, pattern, cursor>>

(***************************************************************************)
(* tools/gen_elf_syms.py: the llvm-pdbutil dumps as the script reads them. *)
(* A line is what the script's tests see of it: the record tag it holds,   *)
(* the name between backquotes, and the "addr = section:offset" and "code  *)
(* size = n" fields.  Two lines are the same text exactly when they are    *)
(* the same record.                                                        *)
(***************************************************************************)
\* Lines of the module dump beyond which no further line is read.
MaxModuleLines == 4

\* Lines of the publics dump beyond which no further line is read.
MaxPublicLines == 3

\* 0x140000000
IMAGE_BASE == <<320, 0>>

HeaderLine(tag, name) ==
    [tag |-> tag, name |-> name, section |-> 0, offset |-> 0, size |-> None]

AddrLine(section, offset, size) ==
    [tag |-> "addr", name |-> <<>>, section |-> section, offset |-> offset,
     size |-> size]

\* "g_x", "_unwind", "__Str__", "__jit_debug_descriptor"
NameGx == <<103, 95, 120>>

NameUnwind == <<95, 117, 110, 119, 105, 110, 100>>

PrefixStr == <<95, 95, 83, 116, 114, 95, 95>>

PrefixJitDescriptor ==
    <<95, 95, 106, 105, 116, 95, 100, 101, 98, 117, 103, 95, 100, 101, 115,
      99, 114, 105, 112, 116, 111, 114>>

PrefixG == <<103, 95>>

\* "addr = 1:32 ... code size = 5", "addr = 1:16", and "addr = 3:16", an
\* address in a section the section dump does not list.
AddrLines ==
    {AddrLine(1, 32, Some(5)), AddrLine(1, 16, None), AddrLine(3, 16, None)}

\* The module dump: a procedure and a datum of the same name.
ModuleLines ==
    {HeaderLine("S_GPROC32", NameFoo), HeaderLine("S_GDATA32", NameFoo)}
        \cup AddrLines

\* The publics dump: a name the module dump may hold, a data name, and a
\* name the script leaves out.
PublicLines ==
    {HeaderLine("S_PUB32", NameFoo), HeaderLine("S_PUB32", NameGx),
     HeaderLine("S_PUB32", NameUnwind)}
        \cup {AddrLine(1, 16, None), AddrLine(3, 16, None)}

\* sections as the first loop leaves it: section 1 at 0x1000, 2 at 0x3000.
SectionTable == {<<1, 4096>>, <<2, 12288>>}

SectionKnown(secs, n) == \E p \in secs : p[1] = n

SectionVa(secs, n) == (CHOOSE p \in secs : p[1] = n)[2]

\* lines[k] for the 0-based k, when the dump is known that far; otherwise
\* the dump ends there, or its next line is read.
Peek(ls, atEnd, k, alphabet, max) ==
    IF k < Len(ls)
    THEN {[lines |-> ls, eof |-> atEnd, line |-> Some(ls[k + 1])]}
    ELSE {[lines |-> ls, eof |-> TRUE, line |-> None]}
           \cup (IF atEnd \/ Len(ls) >= max THEN {}
                 ELSE {[lines |-> Append(ls, l), eof |-> FALSE,
                        line |-> Some(l)] : l \in alphabet})

\* name.startswith(prefix)
StartsWith(name, prefix) ==
    Len(name) >= Len(prefix) /\ SubSeq(name, 1, Len(prefix)) = prefix

\* addr_match and "section in sections"
AddrKnown(secs, nxt) ==
    nxt # None /\ nxt[1].tag = "addr" /\ SectionKnown(secs, nxt[1].section)

\* addr = IMAGE_BASE + sections[section] + offset
SymbolAddr(secs, line) ==
    WAdd(IMAGE_BASE, <<0, SectionVa(secs, line.section) + line.offset>>)

\* size = int(size_match.group(1)) if size_match else 0
CodeSize(line) == IF line.size = None THEN 0 ELSE line.size[1]

\* A symbol record of the dumps as read: its name, address and size and
\* the kind of record it is.
Record(name, addr, size, kind) ==
    [name |-> name, addr |-> addr, size |-> size, kind |-> kind]

(***************************************************************************)
(* The loop over the module dump.                                          *)
(***************************************************************************)
ModuleLineStep ==
    /\ phase = "module"
    /\ \E cur \in Peek(lines, eof, pos, ModuleLines, MaxModuleLines) :
        /\ cur.line # None
        /\ LET line == cur.line[1] IN
           IF line.tag \in {"S_GPROC32", "S_GDATA32"} /\ line.name # <<>>
           THEN \E nx \in Peek(cur.lines, cur.eof, pos + 1, ModuleLines,
                               MaxModuleLines) :
                /\ lines' = nx.lines
                /\ eof' = nx.eof
                /\ IF AddrKnown(sections, nx.line)
                   THEN LET addr == SymbolAddr(sections, nx.line[1])
                            size == IF line.tag = "S_GPROC32"
                                    THEN CodeSize(nx.line[1]) ELSE 0
                        IN  /\ symbols' =
                                 IF line.tag = "S_GPROC32"
                                 THEN Append(symbols, <<addr, size, line.name>>)
                                 ELSE symbols
                            /\ data_symbols' =
                                 IF line.tag = "S_GDATA32"
                                 THEN Append(data_symbols,
                                             <<addr, 0, line.name>>)
                                 ELSE data_symbols
                            /\ records' =
                                 Append(records,
                                        Record(line.name, addr, size,
                                               IF line.tag = "S_GPROC32"
                                               THEN "func" ELSE "data"))
                   ELSE UNCHANGED <<symbols, data_symbols, records>>
           ELSE /\ lines' = cur.lines
                /\ eof' = cur.eof
                /\ UNCHANGED <<symbols, data_symbols, records>>
    /\ pos' = pos + 1
    /\ UNCHANGED <<phase, sections, existing_names, output>>
    /\ UNCHANGED locate_vars
    /\ UNCHANGED jit_vars
    /\ UNCHANGED parse_vars
    /\ UNCHANGED mz_vars

\* The module dump is read; the publics dump is split into lines.
ModuleEnd ==
    /\ phase = "module"
    /\ pos = Len(lines)
    /\ phase' = "publics"
    /\ lines' = <<>>
    /\ eof' = FALSE
    /\ pos' = 0
    /\ existing_names' =
          {symbols[k][3] : k \in 1..Len(symbols)}
            \cup {data_symbols[k][3] : k \in 1..Len(data_symbols)}
    /\ UNCHANGED <<sections, symbols, data_symbols, records, output>>
    /\ UNCHANGED locate_vars
    /\ UNCHANGED jit_vars
    /\ UNCHANGED parse_vars
    /\ UNCHANGED mz_vars

(***************************************************************************)
(* The loop over the publics dump.                                         *)
(***************************************************************************)
\* lines.index(line): the 0-based position of the first line equal to line.
RECURSIVE IndexFrom(_, _, _)
IndexFrom(ls, line, k) ==
    IF ls[k + 1] = line THEN k ELSE IndexFrom(ls, line, k + 1)

LinesIndex(ls, line) == IndexFrom(ls, line, 0)

\* name.startswith('__Str__') or name.startswith('_unwind')
Internal(name) ==
    StartsWith(name, PrefixStr) \/ StartsWith(name, NameUnwind)

\* name.startswith('__jit_debug_descriptor') or name.startswith('g_')
DataByName(name) ==
    StartsWith(name, PrefixJitDescriptor) \/ StartsWith(name, PrefixG)

\* The line after a public record is read for the record of the dumps
\* (records) also where the script does not look at it.
PublicLineStep ==
    /\ phase = "publics"
    /\ \E cur \in Peek(lines, eof, pos, PublicLines, MaxPublicLines) :
        /\ cur.line # None
        /\ LET line == cur.line[1] IN
           IF line.tag = "S_PUB32" /\ line.name # <<>>
                /\ ~Internal(line.name)
           THEN \E nx \in Peek(cur.lines, cur.eof, pos + 1, PublicLines,
                               MaxPublicLines) :
                LET idx == LinesIndex(nx.lines, line)
                    next_line == IF idx + 1 < Len(nx.lines)
                                 THEN Some(nx.lines[idx + 2]) ELSE None
                    isData == DataByName(line.name)
                    taken == /\ line.name \notin existing_names
                             /\ AddrKnown(sections, next_line)
                IN  /\ lines' = nx.lines
                    /\ eof' = nx.eof
                    /\ records' =
                         IF AddrKnown(sections, nx.line)
                         THEN Append(records,
                                     Record(line.name,
                                            SymbolAddr(sections, nx.line[1]),
                                            0,
                                            IF isData THEN "data" ELSE "func"))
                         ELSE records
                    /\ symbols' =
                         IF taken /\ ~isData
                         THEN Append(symbols,
                                     <<SymbolAddr(sections, next_line[1]), 0,
                                       line.name>>)
                         ELSE symbols
                    /\ data_symbols' =
                         IF taken /\ isData
                         THEN Append(data_symbols,
                                     <<SymbolAddr(sections, next_line[1]), 0,
                                       line.name>>)
                         ELSE data_symbols
                    /\ existing_names' =
                         IF taken THEN existing_names \cup {line.name}
                         ELSE existing_names
           ELSE /\ lines' = cur.lines
                /\ eof' = cur.eof
                /\ UNCHANGED <<symbols, data_symbols, existing_names,
                               records>>
    /\ pos' = pos + 1
    /\ UNCHANGED <<phase, sections, output>>
    /\ UNCHANGED locate_vars
    /\ UNCHANGED jit_vars
    /\ UNCHANGED parse_vars
    /\ UNCHANGED mz_vars

(***************************************************************************)
(* The tables and the file.                                                *)
(***************************************************************************)
\* all_symbols = symbols + data_symbols
all_symbols(syms, data) == syms \o data

\* b'\x00.text\x00.symtab\x00.strtab\x00.shstrtab\x00'
shstrtab ==
    <<0, 46, 116, 101, 120, 116, 0,
      46, 115, 121, 109, 116, 97, 98, 0,
      46, 115, 116, 114, 116, 97, 98, 0,
      46, 115, 104, 115, 116, 114, 116, 97, 98, 0>>

\* name.encode('utf-8'), for code points below 0x800.
RECURSIVE Utf8(_)
Utf8(name) ==
    IF name = <<>> THEN <<>>
    ELSE (IF Head(name) < 128 THEN <<Head(name)>>
          ELSE <<192 + (Head(name) \div 64), 128 + (Head(name) % 64)>>)
            \o Utf8(Tail(name))

\* The loop that builds strtab and str_offsets: a later symbol of the same
\* name overwrites the name's offset.
RECURSIVE StrTables(_)
StrTables(all) ==
    IF all = <<>> THEN [strtab |-> <<0>>, str_offsets |-> <<>>]
    ELSE LET before == StrTables(SubSeq(all, 1, Len(all) - 1))
             name == all[Len(all)][3]
         IN  [strtab |-> before.strtab \o Utf8(name) \o <<0>>,
              str_offsets |-> (name :> Len(before.strtab))
                                 @@ before.str_offsets]

\* The order of Python strings (by code point) and of the symbol tuples.
RECURSIVE StrLt(_, _)
StrLt(a, b) ==
    IF b = <<>> THEN FALSE
    ELSE IF a = <<>> THEN TRUE
    ELSE IF Head(a) # Head(b) THEN Head(a) < Head(b)
    ELSE StrLt(Tail(a), Tail(b))

TupleLt(a, b) ==
    \/ WLt(a[1], b[1])
    \/ a[1] = b[1] /\ a[2] < b[2]
    \/ a[1] = b[1] /\ a[2] = b[2] /\ StrLt(a[3], b[3])

\* sorted(all_symbols): a stable sort by the whole tuple.
RECURSIVE Insert(_, _)
Insert(sorted, t) ==
    IF sorted = <<>> THEN <<t>>
    ELSE IF TupleLt(t, Head(sorted)) THEN <<t>> \o sorted
    ELSE <<Head(sorted)>> \o Insert(Tail(sorted), t)

\* The tuples in discovery order.
Sorted_unsorted(all) == all

RECURSIVE Sorted(_)
Sorted(all) ==
    IF all = <<>> THEN <<>>
    ELSE Insert(Sorted(SubSeq(all, 1, Len(all) - 1)), all[Len(all)])

\* The ELF64 header.
ehdr ==
    ElfMagic \o <<2, 1, 1>> \o Zeros(9) \o LE(2, 2) \o LE(62, 2) \o LE(1, 4)
      \o LE64(WAdd(IMAGE_BASE, <<0, 249856>>)) \o LE(0, 8) \o LE(64, 8)
      \o Zeros(4) \o LE(64, 2) \o Zeros(4) \o LE(64, 2) \o LE(5, 2)
      \o LE(4, 2)

\* Section header offset calculations.
shdrs_size == 5 * 64

text_offset == 64 + shdrs_size

symtab_offset == text_offset

strtab_offset_nonull(n) == symtab_offset + n * 24

strtab_offset(n) == symtab_offset + (n + 1) * 24

shstrtab_offset(n, strtab) == strtab_offset(n) + Len(strtab)

\* One 64-byte section header: sh_name, sh_type, sh_flags, sh_addr,
\* sh_offset, sh_size, sh_link, sh_info, sh_addralign (never set),
\* sh_entsize.
Shdr(name, type, flags, addr, offset, size, link, info, entsize) ==
    LE(name, 4) \o LE(type, 4) \o LE(flags, 8) \o LE64(addr)
      \o LE(offset, 8) \o LE(size, 8) \o LE(link, 4) \o LE(info, 4)
      \o Zeros(8) \o LE(entsize, 8)

shdr_null == Zeros(64)

shdr_text ==
    Shdr(1, 1, 6, WAdd(IMAGE_BASE, <<0, 249856>>), text_offset, 0, 0, 0, 0)

shdr_symtab(n) == Shdr(7, 2, 0, Zero, symtab_offset, (n + 1) * 24, 3, 1, 24)

shdr_strtab(n, strtab) ==
    Shdr(15, 3, 0, Zero, strtab_offset(n), Len(strtab), 0, 0, 0)

shdr_shstrtab(n, strtab) ==
    Shdr(23, 3, 0, Zero, shstrtab_offset(n, strtab), Len(shstrtab), 0, 0, 0)

\* func_names = {name for addr, size, name in symbols}
func_names(syms) == {syms[k][3] : k \in 1..Len(syms)}

\* (1 << 4) | 2 for a name of func_names, (1 << 4) | 1 otherwise.
SymInfo(syms, name) == IF name \in func_names(syms) THEN 18 ELSE 17

\* One 24-byte symbol record.
Sym(st_name, st_info, addr, size) ==
    LE(st_name, 4) \o <<st_info, 0>> \o LE(1, 2) \o LE64(addr) \o LE(size, 8)

\* symtab: the null symbol, then one record per tuple of sorted(all_symbols).
symtab(syms, data) ==
    LET all == all_symbols(syms, data)
        str_offsets == StrTables(all).str_offsets
        order == Sorted(all)
    IN  Zeros(24)
          \o Flatten([k \in 1..Len(order) |->
                        Sym(str_offsets[order[k][3]],
                            SymInfo(syms, order[k][3]),
                            order[k][1], order[k][2])])

\* The bytes written, in the order of the f.write calls.
ElfFile(syms, data) ==
    LET all == all_symbols(syms, data)
        n == Len(all)
        strtab == StrTables(all).strtab
    IN  ehdr \o shdr_null \o shdr_text \o shdr_symtab(n)
          \o shdr_strtab(n, strtab) \o shdr_shstrtab(n, strtab)
          \o symtab(syms, data) \o strtab \o shstrtab

\* The publics dump is read; the tables are built and the file is written.
WriteElf ==
    /\ phase = "publics"
    /\ pos = Len(lines)
    /\ phase' = "done"
    /\ output' = ElfFile(symbols, data_symbols)
    /\ UNCHANGED <<sections, lines, eof, pos, symbols, data_symbols,
                   existing_names, records>>
    /\ UNCHANGED locate_vars
    /\ UNCHANGED jit_vars
    /\ UNCHANGED parse_vars
    /\ UNCHANGED mz_vars

(***************************************************************************)
(* find_kernel_base_by_mz_scan.  Addresses are plain integers: the         *)
(* instruction pointers drawn below leave every candidate under 2^31.      *)
(***************************************************************************)
\* retries=5, the default; the one call passes no other.
retries == 5

\* for warmup in range(10)
WarmupProbes == 10

\* A rendering with a fourth recovery round.
RecoveryRounds_more == 3 + 1

\* for recovery_attempt in range(3)
RecoveryRounds == 3

\* for i in range(5)
RecoveryProbes == 5

\* $rip: 0x1234 (candidates reach below address 0), 0x7E5A9C0, and
\* 0x7E60000 (64KiB-aligned: candidates pair up at equal distances).
PcValues == {4660, 132491712, 132513792}

\* int(gdb.parse_and_eval("$rip")) then read_memory(pc, 4): the register
\* read fails, or the memory read fails, or both succeed.
ProbeOutcomes ==
    {[rip |-> None, mem |-> FALSE]}
        \cup [rip : {Some(p) : p \in PcValues}, mem : BOOLEAN]

pc_64k(p) == (p \div 65536) * 65536

pc_4k(p) == p - (p % 4096)

priority_bases(p) ==
    <<pc_4k(p), pc_4k(p) - 4096, pc_4k(p) - 8192, pc_64k(p),
      pc_64k(p) - 65536>>

\* range(a, b, step) as a set
PyRange(a, b, step) == {a + k * step : k \in 0..((b - a - 1) \div step)}

\* set(potential_bases)
potential_bases(p) ==
    {pc_64k(p) + offset : offset \in PyRange(-4194304, 4194304, 65536)}
      \cup {pc_4k(p) + offset : offset \in PyRange(-1048576, 1048576, 4096)}
      \cup {(p - (p % 2048)) + offset :
                offset \in PyRange(-262144, 262144, 2048)}

\* The sort key, abs(x - pc).
Distance(x, p) == IF x < p THEN p - x ELSE x - p

\* The order of iteration over a set is the implementation's: candidates
\* with equal keys come out of the stable sort lower address first, or
\* higher address first.
TieOrders == {"low", "high"}

\* A rendering that sorts by x - pc.
Before_signed(a, b, p, tie) == a < b

\* a comes before b in potential_bases after the sort.
Before(a, b, p, tie) ==
    \/ Distance(a, p) < Distance(b, p)
    \/ Distance(a, p) = Distance(b, p)
          /\ (IF tie = "low" THEN a < b ELSE a > b)

\* Target memory during one attempt: readable from lo to hi, the signature
\* at the addresses of mz.
MemoryMaps(p) ==
    LET all == [lo |-> 1, hi |-> p + 8388608, mz |-> {}] IN
    {[lo |-> p, hi |-> p, mz |-> {}],
     all,
     [lo |-> p - 131072, hi |-> p + 131072, mz |-> {}],
     [lo |-> p - 524288, hi |-> p + 524288, mz |-> {}],
     [all EXCEPT !.mz = {pc_4k(p) - 4096}],
     [all EXCEPT !.mz = {pc_4k(p) - 4096, pc_4k(p)}],
     [all EXCEPT !.mz = {pc_64k(p) - 196608, pc_64k(p) + 131072}],
     [all EXCEPT !.mz = {pc_4k(p) - 12288, pc_4k(p) + 12288}],
     [all EXCEPT !.lo = pc_4k(p), !.mz = {pc_4k(p) - 12288, pc_4k(p) + 20480}],
     [all EXCEPT !.mz = {pc_64k(p) - 65536, pc_4k(p) + 4096}]}

NoTarget == [lo |-> 1, hi |-> 0, mz |-> {}]

\* bytes(inferior.read_memory(base, 2)): an exception, b'MZ', or other bytes.
ReadAt(m, a) ==
    IF a < m.lo \/ a > m.hi THEN "err"
    ELSE IF a \in m.mz THEN "MZ" ELSE "other"

\* Positions in priority_bases of the positive addresses that hold b'MZ'.
PriorityHits(m, p) ==
    {k \in 1..5 : priority_bases(p)[k] > 0
                    /\ ReadAt(m, priority_bases(p)[k]) = "MZ"}

\* The priority loop: the addresses read, in order, up to the first hit.
PriorityProbed(m, p) ==
    LET hits == PriorityHits(m, p)
        upto == IF hits = {} THEN 5
                ELSE CHOOSE k \in hits : \A j \in hits : k <= j
    IN  SelectSeq(SubSeq(priority_bases(p), 1, upto), LAMBDA a : a > 0)

\* Positive candidates of the sweep list bases that hold b'MZ'.
SweepHits(m, bases) == {c \in bases : c > 0 /\ ReadAt(m, c) = "MZ"}

\* The sweep loop returns at the first of them in sorted order.
FirstSweepHit(hits, p, tie) ==
    CHOOSE h \in hits : \A g \in hits : g = h \/ Before(h, g, p, tie)

\* The candidates the sweep loop reads: all positive ones, or those up to
\* the first hit.
SweepProbed(bases, hits, p, tie) ==
    IF hits = {} THEN {c \in bases : c > 0}
    ELSE LET first == FirstSweepHit(hits, p, tie) IN
         {c \in bases : c > 0 /\ (c = first \/ Before(c, first, p, tie))}

\* A rendering that retries when errors exceed half of checked.
HighErrorRate_half(c, e) == e * 2 > c

\* errors > checked * 2
HighErrorRate(c, e) == e > c * 2

\* A rendering that never gives up early.
GiveUp_never(c) == FALSE

\* checked > 100
GiveUp(c) == c > 100

\* 1.0 + (attempt * 1.0)
Delay(k) == 1 + k

\* interrupt, sleep(3.0); the warm-up loop begins.
MzScanInvoke ==
    /\ mz_phase = "idle"
    /\ mz_phase' = "warmup"
    /\ UNCHANGED <<warmup, recovery_attempt, probe_i, memory_ready, rip,
                   attempt, checked, errors, mz_ret, verified, target,
                   priority_probed, probed, delays, reconnects>>
    /\ UNCHANGED locate_vars
    /\ UNCHANGED jit_vars
    /\ UNCHANGED syn_vars
    /\ UNCHANGED parse_vars

\* One probe of a warm-up or recovery loop: pc is assigned when the
\* register read succeeds, memory_ready when the memory read does too.
Probe(o) ==
    /\ rip' = IF o.rip = None THEN rip ELSE o.rip
    /\ memory_ready' = (o.rip # None /\ o.mem)

\* The position in the loops before the attempt loop.
Goto(ph, w, r, k, rc) ==
    /\ mz_phase' = ph
    /\ warmup' = w
    /\ recovery_attempt' = r
    /\ probe_i' = k
    /\ reconnects' = rc

\* The attempt loop begins: the counters of the loops before it are dead.
EnterAttempts == Goto("attempts", 0, 0, 0, 0)

\* One iteration of "for warmup in range(10)".
WarmupProbe ==
    /\ mz_phase = "warmup"
    /\ \E o \in ProbeOutcomes :
        /\ Probe(o)
        /\ IF memory_ready' THEN EnterAttempts
           ELSE Goto(IF warmup + 1 < WarmupProbes THEN "warmup"
                     ELSE "recovery", warmup + 1, 0, 0, 0)
    /\ UNCHANGED <<attempt, checked, errors, mz_ret, verified, target,
                   priority_probed, probed, delays>>
    /\ UNCHANGED locate_vars
    /\ UNCHANGED jit_vars
    /\ UNCHANGED syn_vars
    /\ UNCHANGED parse_vars

\* Method 1 of a recovery round: "continue &", "interrupt"; an exception
\* from either leads to method 2.
RecoveryInterrupt ==
    /\ mz_phase = "recovery"
    /\ \E ok \in BOOLEAN :
        Goto(IF ok THEN "recovery_probe" ELSE "reconnect", warmup,
             recovery_attempt, 0, reconnects)
    /\ UNCHANGED <<memory_ready, rip, attempt, checked, errors, mz_ret,
                   verified, target, priority_probed, probed, delays>>
    /\ UNCHANGED locate_vars
    /\ UNCHANGED jit_vars
    /\ UNCHANGED syn_vars
    /\ UNCHANGED parse_vars

\* The round is over: the next one, or the attempt loop.
EndRound ==
    IF recovery_attempt + 1 < RecoveryRounds
    THEN Goto("recovery", warmup, recovery_attempt + 1, 0, 0)
    ELSE EnterAttempts

\* One iteration of "for i in range(5)" after method 1.
RecoveryProbe ==
    /\ mz_phase = "recovery_probe"
    /\ \E o \in ProbeOutcomes :
        /\ Probe(o)
        /\ IF memory_ready' THEN EnterAttempts
           ELSE Goto(IF probe_i + 1 < RecoveryProbes THEN "recovery_probe"
                     ELSE "reconnect", warmup, recovery_attempt,
                     probe_i + 1, reconnects)
    /\ UNCHANGED <<attempt, checked, errors, mz_ret, verified, target,
                   priority_probed, probed, delays>>
    /\ UNCHANGED locate_vars
    /\ UNCHANGED jit_vars
    /\ UNCHANGED syn_vars
    /\ UNCHANGED parse_vars

\* Method 2: "disconnect", "target remote :1234", "interrupt"; an exception
\* ends the round.
Reconnect ==
    /\ mz_phase = "reconnect"
    /\ \E ok \in BOOLEAN :
        IF ok
        THEN Goto("reconnect_probe", warmup, recovery_attempt, 0,
                  reconnects + 1)
        ELSE EndRound
    /\ UNCHANGED <<memory_ready, rip, attempt, checked, errors, mz_ret,
                   verified, target, priority_probed, probed, delays>>
    /\ UNCHANGED locate_vars
    /\ UNCHANGED jit_vars
    /\ UNCHANGED syn_vars
    /\ UNCHANGED parse_vars

\* One iteration of "for i in range(5)" after method 2.
ReconnectProbe ==
    /\ mz_phase = "reconnect_probe"
    /\ \E o \in ProbeOutcomes :
        /\ Probe(o)
        /\ IF memory_ready' THEN EnterAttempts
           ELSE IF probe_i + 1 < RecoveryProbes
           THEN Goto("reconnect_probe", warmup, recovery_attempt,
                     probe_i + 1, reconnects)
           ELSE EndRound
    /\ UNCHANGED <<attempt, checked, errors, mz_ret, verified, target,
                   priority_probed, probed, delays>>
    /\ UNCHANGED locate_vars
    /\ UNCHANGED jit_vars
    /\ UNCHANGED syn_vars
    /\ UNCHANGED parse_vars

\* "continue": the next iteration of the attempt loop, or its end.
NextAttempt == IF attempt + 1 < retries THEN "attempts" ELSE "done"

\* The attempt read neither the register nor memory at the pointer.
AttemptSkipped(o) ==
    /\ rip' = IF o.rip = None THEN rip ELSE o.rip
    /\ verified' = FALSE
    /\ target' = NoTarget
    /\ priority_probed' = <<>>
    /\ probed' = {}
    /\ checked' = 0
    /\ errors' = 0
    /\ mz_ret' = None
    /\ mz_phase' = NextAttempt

\* What one attempt does once its sweep is known: swept are the candidates
\* read, c of them readable, found the match if any.
AttemptResult(swept, c, found) ==
    /\ probed' = swept
    /\ checked' = c
    /\ errors' = Cardinality(swept) - c
    /\ mz_ret' = found
    /\ mz_phase' = IF found # None THEN "done"
                   ELSE IF HighErrorRate(c, Cardinality(swept) - c)
                            /\ attempt < retries - 1
                   THEN "attempts"
                   ELSE IF GiveUp(c) THEN "done"
                   ELSE NextAttempt

\* The priority loop and the sweep of one attempt on memory m.
AttemptScan(p, m, tie) ==
    /\ rip' = Some(p)
    /\ verified' = TRUE
    /\ target' = m
    /\ priority_probed' = PriorityProbed(m, p)
    /\ \E phits \in {PriorityHits(m, p)} :
        IF phits # {}
        THEN AttemptResult({}, 0,
                 Some(priority_bases(p)[CHOOSE k \in phits :
                                            \A j \in phits : k <= j]))
        ELSE \E bases \in {potential_bases(p)} :
             \E hits \in {SweepHits(m, bases)} :
             \E swept \in {SweepProbed(bases, hits, p, tie)} :
             \E c \in {Cardinality({a \in swept : ReadAt(m, a) # "err"})} :
                AttemptResult(swept, c,
                    IF hits = {} THEN None
                    ELSE Some(FirstSweepHit(hits, p, tie)))

\* One iteration of "for attempt in range(retries)".
ScanAttempt ==
    /\ mz_phase = "attempts"
    /\ attempt' = attempt + 1
    /\ delays' = Append(delays, Delay(attempt))
    /\ \E o \in ProbeOutcomes :
        IF o.rip = None \/ ~o.mem THEN AttemptSkipped(o)
        ELSE \E m \in MemoryMaps(o.rip[1]), tie \in TieOrders :
                AttemptScan(o.rip[1], m, tie)
    /\ UNCHANGED <<warmup, recovery_attempt, probe_i, memory_ready,
                   reconnects>>
    /\ UNCHANGED locate_vars
    /\ UNCHANGED jit_vars
    /\ UNCHANGED syn_vars
    /\ UNCHANGED parse_vars

(***************************************************************************)
(* Specifications.                                                         *)
(***************************************************************************)
InitJitVars ==
    /\ jit_symbols = <<>>
    /\ pc = "idle"
    /\ entry = Zero
    /\ visited = {}
    /\ total_count = 0
    /\ stop_reason = NoReason
    /\ scan_ret = None
    /\ mem = [desc |-> NoDesc, nodes |-> {}]
    /\ reads = <<>>
    /\ prev_jit = Summary(<<>>)
    /\ pattern = <<>>
    /\ cursor = 0
    /\ jit_last = Report("none")

\* gen_elf_syms.py after its first loop: the section table is read.
InitSynVars ==
    /\ phase = "module"
    /\ sections = SectionTable
    /\ lines = <<>>
    /\ eof = FALSE
    /\ pos = 0
    /\ symbols = <<>>
    /\ data_symbols = <<>>
    /\ existing_names = {}
    /\ records = <<>>
    /\ output = <<>>

InitLocateVars ==
    /\ symbol_offset = Zero
    /\ watches = 0
    /\ symfiles = {}
    /\ located = FALSE
    /\ last = NoLast

InitParseVars ==
    /\ elf_data = NoBlob
    /\ parsed = None

InitMzVars ==
    /\ mz_phase = "idle"
    /\ warmup = 0
    /\ recovery_attempt = 0
    /\ probe_i = 0
    /\ memory_ready = FALSE
    /\ rip = None
    /\ attempt = 0
    /\ checked = 0
    /\ errors = 0
    /\ mz_ret = None
    /\ verified = FALSE
    /\ target = NoTarget
    /\ priority_probed = <<>>
    /\ probed = {}
    /\ delays = <<>>
    /\ reconnects = 0

\* The state after the script is sourced.
Init ==
    /\ InitLocateVars
    /\ InitJitVars
    /\ InitSynVars
    /\ InitParseVars
    /\ InitMzVars

Next ==
    \/ ProtonConnectInvoke
    \/ ProtonLoadSymbolsInvoke

\* The locate commands.
Spec == Init /\ [][Next]_vars

\* The JIT commands, started after no locate, or after a proton-load-symbols
\* that found the kernel at 0x140000000 or at 0x140001000.
InitJit ==
    /\ \E b \in {None, Some(PE_IMAGE_BASE), Some(<<320, 4096>>)} :
        /\ located = (b # None)
        /\ symbol_offset = IF b = None THEN Zero ELSE LoadOffset(b[1])
        /\ symfiles = IF b = None THEN {} ELSE {LoadOffset(b[1])}
        /\ last = IF b = None THEN NoLast
                  ELSE [NoLast EXCEPT !.cmd = "load-symbols", !.outcome = "ok",
                                      !.cell = b, !.base = b]
    /\ watches = 0
    /\ InitJitVars
    /\ InitSynVars
    /\ InitParseVars
    /\ InitMzVars

NextJit ==
    \/ ProtonJitScanInvoke
    \/ WalkStep
    \/ ProtonJitSearchInvoke
    \/ SearchStep
    \/ ProtonJitLoadInvoke
    \/ LoadStep
    \/ ProtonJitListInvoke
    \/ ProtonJitClearInvoke

SpecJit == InitJit /\ [][NextJit]_vars

NextSyn ==
    \/ ModuleLineStep
    \/ ModuleEnd
    \/ PublicLineStep
    \/ WriteElf

\* One run of gen_elf_syms.py.
SpecSyn == Init /\ [][NextSyn]_vars

NextParse ==
    \/ ReadElfData
    \/ ParseElfSymbolCall

\* parse_elf_symbol applied to blobs.
SpecParse == Init /\ [][NextParse]_vars

NextMz ==
    \/ MzScanInvoke
    \/ WarmupProbe
    \/ RecoveryInterrupt
    \/ RecoveryProbe
    \/ Reconnect
    \/ ReconnectProbe
    \/ ScanAttempt

\* One call of find_kernel_base_by_mz_scan.
SpecMz == Init /\ [][NextMz]_vars

\* The call is not suspended for ever: each sleep ends, each command and
\* each read returns or raises.
SpecMzFair == SpecMz /\ WF_vars(NextMz)

(***************************************************************************)
(* Properties of the locate commands (checked under Spec).                 *)
(***************************************************************************)
\* C1: when proton-connect read 0xDEADBEEF at the marker address and then a
\* value at 0x10008, it armed one watch and ran "delete" once, no watchpoint
\* is armed afterwards, and the offset it published is that value minus
\* 0x140000000, the offset at which the symbol file is loaded.
C1_ConnectPublishesExactOffset ==
    (/\ last.cmd = "connect"
     /\ last.marker = Some(GDB_DEBUG_MARKER_VALUE)
     /\ last.base # None)
    => /\ last.arms = 1
       /\ last.deletes = 1
       /\ watches = 0
       /\ last.outcome = "ok"
            => /\ symbol_offset = WSub(last.base[1], PE_IMAGE_BASE)
               /\ symbol_offset \in symfiles
               /\ located

\* A connect, after an earlier locate, that found the kernel below its
\* preferred base: the offset is negative.
C1_Witness ==
    /\ last.cmd = "connect"
    /\ last.outcome = "ok"
    /\ last.marker = Some(GDB_DEBUG_MARKER_VALUE)
    /\ last.base = Some(<<7, 14680064>>)
    /\ symbol_offset = <<-313, 14680064>>
    /\ last.before = <<0, 4096>>
    /\ watches = 0

\* C2: a proton-load-symbols whose cell read gave no base (unreadable or
\* zero) and whose signature scan returned not-found changes neither the
\* load offset nor the set of loaded symbol files.
C2_FailedLocatePublishesNothing ==
    [][(/\ last'.cmd = "load-symbols"
        /\ last'.cell \in {None, Some(Zero)}
        /\ last'.scanned
        /\ last'.base = None)
       => /\ symbol_offset' = symbol_offset
          /\ symfiles' = symfiles]_vars

\* A failed locate after an earlier successful one: the earlier offset stands.
C2_Witness ==
    /\ last.cmd = "load-symbols"
    /\ last.outcome = "not-found"
    /\ last.cell = Some(Zero)
    /\ last.before = <<0, 4096>>
    /\ symbol_offset = <<0, 4096>>
    /\ symfiles = {<<0, 4096>>}

C11_MarkerMismatchAborts ==
    [][(/\ last'.cmd = "connect"
        /\ last'.marker # None
        /\ last'.marker[1] # GDB_DEBUG_MARKER_VALUE)
       => /\ last'.outcome = "marker-mismatch"
          /\ symbol_offset' = symbol_offset
          /\ symfiles' = symfiles
          /\ last'.cell = None
          /\ last'.base = None]_vars

\* A connect that read 0xDEADBEEE after an earlier locate had published
\* the offset 0x1000: the offset and the loaded file stand.
C11_Witness ==
    /\ last.cmd = "connect"
    /\ last.outcome = "marker-mismatch"
    /\ last.marker = Some(<<222, 11386606>>)
    /\ last.before = <<0, 4096>>
    /\ symbol_offset = <<0, 4096>>
    /\ symfiles = {<<0, 4096>>}

\* C12: proton-load-symbols runs the signature scan exactly when the cell
\* at 0x10008 is unreadable or holds zero; the base it settles on is the
\* cell's value when that is readable and nonzero and the scan's result
\* otherwise; when it has a base, the offset it publishes plus 0x140000000 is
\* that base, and when it has none, the offset is as before.
C12_LoadSymbolsOffset ==
    last.cmd = "load-symbols" =>
        LET direct == last.cell # None /\ last.cell[1] # Zero IN
        /\ last.scanned <=> ~direct
        /\ ~last.scanned => last.found = None
        /\ last.base = IF direct THEN last.cell ELSE last.found
        /\ last.base # None
             => WAdd(symbol_offset, PE_IMAGE_BASE) = last.base[1]
        /\ last.base = None => symbol_offset = last.before

\* The cell held zero and the scan found the kernel at 0x7E00000, below the
\* preferred base: the offset published is negative.
C12_Witness ==
    /\ last.cmd = "load-symbols"
    /\ last.cell = Some(Zero)
    /\ last.scanned
    /\ last.found = Some(<<7, 14680064>>)
    /\ symbol_offset = <<-313, 14680064>>
    /\ WLt(symbol_offset, Zero)

(***************************************************************************)
(* Properties of the registry scan (checked under SpecJit).                *)
(***************************************************************************)
\* _scan_jit_list has returned and no other command has run since.
ScanDone == jit_last.cmd = "scan" /\ pc = "idle"

ReadSet == {reads[i] : i \in 1..Len(reads)}

\* The record read at the last node read.
LastRead == Lookup(mem, reads[Len(reads)])

\* The registry's plausible address window.
OutOfWindow(p) == WLt(p, <<0, 65536>>) \/ WLt(<<16777215, 16777215>>, p)

\* Nonzero and below the 1 MiB ceiling.
SizeInRange(size) == WLt(Zero, size) /\ WLt(size, <<0, 1048576>>)

\* The blob addresses of the nodes read whose blob passes the sanity filter.
Discovered ==
    {q[2].blob[1] :
       q \in {r \in mem.nodes : /\ r[2].status = "ok"
                                /\ r[2].blob[1] # Zero
                                /\ SizeInRange(r[2].blob[2])}}

\* The dict holds one entry for each discovered blob address and no other.
HoldsDiscovered ==
    /\ Keys(jit_symbols) = Discovered
    /\ Len(jit_symbols) = Cardinality(Discovered)
    /\ scan_ret = Some(Len(jit_symbols))

\* The pointer the walk was to follow when it ended.
NextPtr == IF reads = <<>> THEN mem.desc.first_entry ELSE LastRead.next

\* C3 as stated: a scan that failed at the descriptor leaves the set as it
\* found it: the same keys, the same resolved and loaded entries.
C3_FailedScanKeepsSet ==
    (ScanDone /\ mem.desc.status # "ok") => Summary(jit_symbols) = prev_jit

\* C3 as amended: a scan that failed at the descriptor (its address could not
\* be evaluated or the record could not be read) read no node, returned 0
\* with an initialization error as its stop reason, and left the entry set
\* empty: the entries found before are discarded.
C3_FailedScanEmptiesSet ==
    (ScanDone /\ mem.desc.status # "ok")
    => /\ jit_symbols = <<>>
       /\ scan_ret = Some(0)
       /\ reads = <<>>
       /\ stop_reason = Reason("initialization error", Zero)

\* A descriptor read that failed when two entries were known, one loaded.
C3_Witness ==
    /\ ScanDone
    /\ mem.desc.status = "memerr"
    /\ prev_jit.keys = {BlobAddrA, BlobAddrB}
    /\ prev_jit.loaded = {BlobAddrA}
    /\ jit_symbols = <<>>

\* C4: after a scan the dict holds exactly the entries that scan discovered,
\* each carrying the address and size of a node it read, unresolved and not
\* loaded; nothing of the earlier dict survives.
C4_ScanIsFreshSnapshot ==
    ScanDone
    => /\ HoldsDiscovered
       /\ \A i \in 1..Len(jit_symbols) :
            /\ jit_symbols[i].name = None
            /\ jit_symbols[i].code_addr = None
            /\ ~jit_symbols[i].loaded
            /\ \E q \in mem.nodes :
                 /\ q[2].status = "ok"
                 /\ q[2].blob = <<jit_symbols[i].elf_addr, jit_symbols[i].elf_size>>

\* A scan that rediscovered an entry that had been loaded and did not
\* rediscover another.
C4_Witness ==
    /\ ScanDone
    /\ prev_jit.keys = {BlobAddrA, BlobAddrB}
    /\ prev_jit.loaded = {BlobAddrA}
    /\ Keys(jit_symbols) = {BlobAddrA}
    /\ stop_reason = Reason("reached end of list", Zero)

\* C6: every pass of the walk that does not end it adds a pointer to the
\* visited set, which holds registry pointers only (so the walk ends); a pass
\* that meets a visited pointer ends the walk with the cycle reported at that
\* pointer and the dict untouched; and a scan whose last node read points
\* back at a node read earlier reported the cycle there and holds the entries
\* of the nodes read.
C6_CycleTerminatesAndIsReported ==
    /\ [](/\ visited \subseteq Ptrs
          /\ (/\ ScanDone
              /\ reads # <<>>
              /\ LastRead.status = "ok"
              /\ LastRead.next \in ReadSet)
             => /\ stop_reason = Reason("cycle detected", LastRead.next)
                /\ HoldsDiscovered)
    /\ [][/\ (pc = "walk" /\ pc' = "walk")
              => (visited \subseteq visited' /\ visited' # visited)
          /\ (pc = "walk" /\ entry # Zero /\ entry \in visited)
              => /\ pc' = "idle"
                 /\ stop_reason' = Reason("cycle detected", entry)
                 /\ jit_symbols' = jit_symbols
                 /\ scan_ret' = Some(Len(jit_symbols))]_vars

\* A cycle through both nodes, each of which gave an entry.
C6_Witness ==
    /\ ScanDone
    /\ Len(reads) = 2
    /\ LastRead.next = reads[1]
    /\ stop_reason = Reason("cycle detected", reads[1])
    /\ Keys(jit_symbols) = {BlobAddrA, BlobAddrB}

\* C7: every address the scan reads lies in the window from 0x10000 to
\* 0xFFFFFFFFFFFF and is read once; and a scan that was led to a nonzero
\* pointer outside the window ended there, returning the entries of the
\* nodes read, with that pointer as the stop reason and unread.
C7_WindowAndNoRevisit ==
    /\ \A i \in 1..Len(reads) :
         /\ ~OutOfWindow(reads[i])
         /\ \A j \in 1..Len(reads) : reads[i] = reads[j] => i = j
    /\ (/\ ScanDone
        /\ mem.desc.status = "ok"
        /\ reads # <<>> => LastRead.status = "ok"
        /\ NextPtr # Zero
        /\ OutOfWindow(NextPtr))
       => /\ stop_reason.kind \in {"invalid entry pointer (too low)",
                                   "invalid entry pointer (too high)"}
          /\ (stop_reason.kind = "invalid entry pointer (too low)")
               = WLt(NextPtr, <<0, 65536>>)
          /\ stop_reason.addr = NextPtr
          /\ NextPtr \notin ReadSet
          /\ HoldsDiscovered

\* A walk that read the nodes at both ends of the window, then met 0xFFFF.
C7_Witness ==
    /\ ScanDone
    /\ reads = <<<<16777215, 16777215>>, <<0, 65536>>>>
    /\ stop_reason = Reason("invalid entry pointer (too low)", LowPtr)
    /\ Len(jit_symbols) = 1

\* C8: every entry has a size above 0 and below 0x100000; a node read with a
\* nonzero blob address and such a size has an entry, one with size 0 or
\* 0x100000 or more has none through that node; and the walk goes on from
\* every node it reads successfully, whatever its blob: it is at the node's
\* next pointer, or ended because of that pointer.
C8_SizeFilter ==
    /\ \A i \in 1..Len(jit_symbols) : SizeInRange(jit_symbols[i].elf_size)
    /\ pc = "idle" /\ jit_last.cmd = "scan" => Keys(jit_symbols) = Discovered
    /\ (pc = "walk" /\ reads # <<>>)
         => (LastRead.status = "ok" /\ entry = LastRead.next)
    /\ (ScanDone /\ reads # <<>> /\ LastRead.status = "ok")
         => /\ stop_reason.kind \in
                 {"reached end of list", "cycle detected",
                  "invalid entry pointer (too low)",
                  "invalid entry pointer (too high)"}
            /\ (stop_reason.kind = "reached end of list") = (LastRead.next = Zero)
            /\ stop_reason.kind # "reached end of list"
                 => stop_reason.addr = LastRead.next

\* A node with size 0x100000 gave no entry and the walk went on to a node
\* with size 0xFFFFF, which gave one.
C8_Witness ==
    /\ ScanDone
    /\ Len(reads) = 2
    /\ Lookup(mem, reads[1]).blob = <<BlobAddrB, SizeAtCeiling>>
    /\ LastRead.blob = <<BlobAddrA, SizeBelowCeiling>>
    /\ Len(jit_symbols) = 1
    /\ jit_symbols[1].elf_addr = BlobAddrA
    /\ jit_symbols[1].elf_size = SizeBelowCeiling

\* C9: a node read that raised gdb.MemoryError is the last read of the scan;
\* the scan returned (it did not raise) the number of entries of the nodes
\* read before, which are what the dict holds, and the stop reason names the
\* inaccessible address.
C9_InaccessibleNodeStopsWalk ==
    /\ \A i \in 1..Len(reads) :
         Lookup(mem, reads[i]).status # "ok" => i = Len(reads) /\ pc = "idle"
    /\ (ScanDone /\ reads # <<>> /\ LastRead.status = "memerr")
         => /\ stop_reason
                 = Reason("hit inaccessible memory", reads[Len(reads)])
            /\ HoldsDiscovered

\* The second node was inaccessible; the entry of the first is kept.
C9_Witness ==
    /\ ScanDone
    /\ Len(reads) = 2
    /\ LastRead.status = "memerr"
    /\ scan_ret = Some(1)
    /\ Len(jit_symbols) = 1

\* C10: a scan that read first_entry = 0 returned 0, read no node, recorded
\* the empty registry (not an error) as its stop reason and left the dict
\* empty.
C10_EmptyRegistry ==
    (ScanDone /\ mem.desc.status = "ok" /\ mem.desc.first_entry = Zero)
    => /\ scan_ret = Some(0)
       /\ reads = <<>>
       /\ jit_symbols = <<>>
       /\ stop_reason = Reason("first_entry is NULL", Zero)

\* An empty registry found when entries were known.
C10_Witness ==
    /\ ScanDone
    /\ mem.desc = [status |-> "ok", first_entry |-> Zero]
    /\ prev_jit.keys # {}
    /\ scan_ret = Some(0)

(***************************************************************************)
(* Properties of the commands that use the snapshot (checked under         *)
(* SpecJit).                                                               *)
(***************************************************************************)
\* The entries of the dict in iteration order, by blob address and size.
Shape(d) == [i \in 1..Len(d) |-> <<d[i].elf_addr, d[i].elf_size>>]

\* The command at pc calls _resolve_jit_symbol on the entry at the cursor.
ResolveCalled ==
    pc = "search" \/ (pc = "load" /\ ~jit_symbols[cursor].loaded)

\* C13: no step of proton-jit-list, proton-jit-search or proton-jit-load
\* adds or removes an entry, changes an entry's blob address or blob size,
\* or reorders the entries; a step that does belongs to a scan or to
\* proton-jit-clear.
C13_SnapshotImmutable ==
    [][/\ jit_last'.cmd \in {"list", "search", "load"}
            => Shape(jit_symbols') = Shape(jit_symbols)
       /\ Shape(jit_symbols') # Shape(jit_symbols)
            => jit_last'.cmd \in {"scan", "clear"}]_vars

\* A load that resolved and loaded both entries of a two-entry snapshot
\* whose first entry is the blob at 0x300000.
C13_Witness ==
    /\ jit_last.cmd = "load"
    /\ pc = "idle"
    /\ Shape(jit_symbols) = <<<<BlobAddrB, SmallSize>>,
                              <<BlobAddrA, SizeBelowCeiling>>>>
    /\ jit_last.loaded = {BlobAddrA, BlobAddrB}

\* C14: a call of _resolve_jit_symbol on an entry that already has a name
\* returns True without reading the target and leaves the entry's name and
\* code address as they were.
C14_ResolutionIsCached ==
    [][(ResolveCalled /\ jit_symbols[cursor].name # None)
       => /\ jit_last'.resolve # None
          /\ jit_last'.resolve[1].addr = jit_symbols[cursor].elf_addr
          /\ jit_last'.resolve[1].rd = NoRead
          /\ jit_last'.resolve[1].ok
          /\ jit_symbols'[cursor].name = jit_symbols[cursor].name
          /\ jit_symbols'[cursor].code_addr
               = jit_symbols[cursor].code_addr]_vars

\* A search that matched an entry resolved by an earlier command.
C14_Witness ==
    /\ jit_last.cmd = "search"
    /\ jit_last.resolve # None
    /\ jit_last.resolve[1].rd = NoRead
    /\ jit_last.resolve[1].ok
    /\ jit_last.resolve[1].addr \in jit_last.matched

\* The blob does not begin with 0x7F 'E' 'L' 'F'.
LacksSignature(b) ==
    \E k \in 0..3 : ByteAt(b, k) # <<127, 69, 76, 70>>[k + 1]

\* The sh_type fields of the blob's section headers.
SectionTypes(b) ==
    {ULE(b, ULE(b, 40, 4) + 64 * i + 4, 4) : i \in 0..(ULE(b, 60, 2) - 1)}

Unresolvable(b) ==
    LacksSignature(b) \/ 2 \notin SectionTypes(b) \/ 3 \notin SectionTypes(b)

\* C15: when _resolve_jit_symbol reads a blob that lacks the signature, a
\* symbol-table section or a string-table section, it returns False: the
\* entry stays without name and code address and not loaded, the command
\* neither lists nor writes nor loads it, and the loop goes on to the next
\* entry (or ends normally after the last).  No entry is ever loaded
\* without a name.
C15_ResolveFailsSilently ==
    /\ [](\A i \in 1..Len(jit_symbols) :
             jit_symbols[i].loaded => jit_symbols[i].name # None)
    /\ [][(/\ ResolveCalled
            /\ jit_last'.resolve # None
            /\ jit_last'.resolve[1].rd.status = "ok"
            /\ Unresolvable(jit_last'.resolve[1].rd.blob))
           => /\ ~jit_last'.resolve[1].ok
              /\ jit_symbols'[cursor].name = None
              /\ jit_symbols'[cursor].code_addr = None
              /\ ~jit_symbols'[cursor].loaded
              /\ jit_last'.matched = jit_last.matched
              /\ jit_last'.loaded = jit_last.loaded
              /\ jit_last'.written = jit_last.written
              /\ IF cursor < Len(jit_symbols)
                 THEN pc' = pc /\ cursor' = cursor + 1
                 ELSE pc' = "idle"]_vars

\* A load whose first entry's blob is not an ELF image and which goes on to
\* the second entry.
C15_Witness ==
    /\ pc = "load"
    /\ cursor = 2
    /\ jit_last.resolve # None
    /\ jit_last.resolve[1].rd.status = "ok"
    /\ jit_last.resolve[1].rd.blob.data = ImageBadMagic
    /\ ~jit_last.resolve[1].ok
    /\ jit_symbols[1].name = None
    /\ ~jit_symbols[1].loaded
    /\ jit_last.errors = 1

(***************************************************************************)
(* Properties of the synthesized symbol file (checked under SpecSyn).      *)
(* The file is read back the way an object-file reader reads it: the       *)
(* section headers at e_shoff, the symbol table through section 2 and its  *)
(* sh_link, the names through st_name.                                     *)
(***************************************************************************)
AsBlob(bytes) == [size |-> Len(bytes), data |-> bytes]

\* sh_offset and sh_size of section k.
SecOffset(b, k) == AsOffset(U64(b, AsOffset(U64(b, 40)) + 64 * k + 24))

SecSize(b, k) == AsOffset(U64(b, AsOffset(U64(b, 40)) + 64 * k + 32))

\* The number of records after record 0.
NumSymbols(b) == (SecSize(b, 2) \div 24) - 1

\* Record r of the symbol table as (name, address, size, kind).
ReadSymbol(b, r) ==
    LET at == SecOffset(b, 2) + 24 * r
        link == ULE(b, AsOffset(U64(b, 40)) + 64 * 2 + 40, 4)
        nibble == ByteAt(b, at + 4) % 16
    IN  Record(CString(b, SecOffset(b, link) + ULE(b, at, 4)),
               U64(b, at + 8), ULE(b, at + 16, 4),
               IF nibble = 2 THEN "func"
               ELSE IF nibble = 1 THEN "data" ELSE "other")

ReadBack(b) == [r \in 1..NumSymbols(b) |-> ReadSymbol(b, r)]

Range(seq) == {seq[k] : k \in 1..Len(seq)}

\* The records of the dumps with every later record of a name already seen
\* dropped.
DedupFirst(recs) ==
    SelectSeq([k \in 1..Len(recs) |->
                 [rec |-> recs[k],
                  first |-> \A j \in 1..(k - 1) : recs[j].name # recs[k].name]],
              LAMBDA e : e.first)

Supplied == LET d == DedupFirst(records) IN [k \in 1..Len(d) |-> d[k].rec]

\* No line of the publics dump occurs in it twice.
DistinctLines ==
    \A j, k \in 1..Len(lines) : j # k => lines[j] # lines[k]

C17_DedupFirstWins ==
    (phase = "done" /\ DistinctLines)
    => LET back == ReadBack(AsBlob(output)) IN
       \A rec \in Range(Supplied) :
          /\ Cardinality({r \in 1..Len(back) : back[r].name = rec.name}) = 1
          /\ rec \in Range(back)

\* C18: record 0 of the symbol table is all zero, no other record is, there
\* is one record per symbol, and the addresses of records 1..n do not
\* decrease.
C18_SortedByAddress ==
    phase = "done"
    => LET b == AsBlob(output)
           n == NumSymbols(b)
           RecordBytes(r) ==
               [k \in 1..24 |-> ByteAt(b, SecOffset(b, 2) + 24 * r + k - 1)]
       IN  /\ n = Len(symbols) + Len(data_symbols)
           /\ RecordBytes(0) = Zeros(24)
           /\ \A r \in 1..n : RecordBytes(r) # Zeros(24)
           /\ \A r \in 1..(n - 1) :
                ~WLt(ReadSymbol(b, r + 1).addr, ReadSymbol(b, r).addr)

\* The function Foo at 0x140001020 discovered before the datum g_x at
\* 0x140001010: g_x is record 1.
C18_Witness ==
    /\ phase = "done"
    /\ symbols = <<<<<<320, 4128>>, 5, NameFoo>>>>
    /\ data_symbols = <<<<<<320, 4112>>, 0, NameGx>>>>
    /\ ReadSymbol(AsBlob(output), 1).name = NameGx
    /\ ReadSymbol(AsBlob(output), 2).name = NameFoo

\* The orders in which the same symbols may have been discovered.
Perms(seq) ==
    {[k \in 1..Len(seq) |-> seq[f[k]]] :
        f \in {g \in [1..Len(seq) -> 1..Len(seq)] :
                 \A x, y \in 1..Len(seq) : x # y => g[x] # g[y]}}

\* C19 as stated: the bytes written depend only on the set of symbols: the
\* same functions and data discovered in any other order give the same file.
C19_SameSetSameBytes ==
    phase = "done"
    => \A p \in Perms(symbols), q \in Perms(data_symbols) :
          ElfFile(p, q) = output

\* C19 as amended: the same functions and data discovered in any other
\* order give a file of the same length whose symbol records, read back,
\* are the same sequence of (name, address, size, kind): the tuples in the
\* order of (address, size, name).
C19_RecordOrderIndependent ==
    phase = "done"
    => \A p \in Perms(symbols), q \in Perms(data_symbols) :
          /\ Len(ElfFile(p, q)) = Len(output)
          /\ ReadBack(AsBlob(ElfFile(p, q))) = ReadBack(AsBlob(output))

\* Two data symbols of different names discovered in descending address
\* order: the records are in ascending order.
C19_Witness ==
    /\ phase = "done"
    /\ Len(data_symbols) = 2
    /\ data_symbols[1][3] # data_symbols[2][3]
    /\ WLt(data_symbols[2][1], data_symbols[1][1])
    /\ ReadSymbol(AsBlob(output), 1).name = data_symbols[2][3]

\* The string table as the names give it: a zero byte, then each name and
\* a zero byte, in discovery order.
NamesTable(all) ==
    <<0>> \o Flatten([k \in 1..Len(all) |-> all[k][3] \o <<0>>])

\* C20: the file is the 64-byte header, five 64-byte section headers, the
\* symbol table at byte 384 with 24 * (n + 1) bytes, the string table right
\* after it, the section-name string table right after that, and nothing
\* more; the offset and size fields of the section headers say so; no two
\* sections share a byte.
C20_LayoutMatchesHeaders ==
    phase = "done"
    => LET b == AsBlob(output)
           all == symbols \o data_symbols
           n == Len(all)
           names == NamesTable(all)
           Bytes(k) == SubSeq(output, SecOffset(b, k) + 1,
                              SecOffset(b, k) + SecSize(b, k))
       IN  /\ U64(b, 40) = <<0, 64>>
           /\ ULE(b, 58, 2) = 64
           /\ ULE(b, 60, 2) = 5
           /\ SecOffset(b, 1) = 384 /\ SecSize(b, 1) = 0
           /\ SecOffset(b, 2) = 384 /\ SecSize(b, 2) = 24 * (n + 1)
           /\ SecOffset(b, 3) = 384 + 24 * (n + 1)
           /\ SecSize(b, 3) = Len(names)
           /\ Bytes(3) = names
           /\ SecOffset(b, 4) = SecOffset(b, 3) + SecSize(b, 3)
           /\ Bytes(4) = shstrtab
           /\ Len(output) = SecOffset(b, 4) + SecSize(b, 4)
           /\ \A j, k \in 1..4 :
                j < k => SecOffset(b, j) + SecSize(b, j) <= SecOffset(b, k)

\* A file of three symbols of two different names.
C20_Witness ==
    /\ phase = "done"
    /\ Len(symbols) + Len(data_symbols) = 3
    /\ SecSize(AsBlob(output), 2) = 96
    /\ SecSize(AsBlob(output), 3) = 13
    /\ Len(output) = 384 + 96 + 13 + 33


(***************************************************************************)
(* Properties of parse_elf_symbol (checked under SpecParse).  The blob is  *)
(* read here through sets of indices, not by the parser's loops.           *)
(***************************************************************************)
\* Indices of the section headers of type t.
SectionsOfType(b, t) ==
    {k \in 0..(ULE(b, 60, 2) - 1) :
        ULE(b, AsOffset(U64(b, 40)) + 64 * k + 4, 4) = t}

\* A valid signature, a symbol-table section and a string-table section.
HasTables(b) ==
    /\ ~BadMagic(b)
    /\ SectionsOfType(b, 2) # {}
    /\ SectionsOfType(b, 3) # {}

SymtabAt(b) == SecOffset(b, CHOOSE k \in SectionsOfType(b, 2) : TRUE)

StrtabAt(b) == SecOffset(b, CHOOSE k \in SectionsOfType(b, 3) : TRUE)

SymtabCount(b) == SecSize(b, CHOOSE k \in SectionsOfType(b, 2) : TRUE) \div 24

\* Record r lies within the blob up to the end of its st_value.
RecordPresent(b, r) == SymtabAt(b) + 24 * r + 16 <= b.size

\* Indices, from 1 on, of the records typed as functions.
FunctionIndices(b) ==
    {r \in 1..(SymtabCount(b) - 1) :
        ByteAt(b, SymtabAt(b) + 24 * r + 4) % 16 = 2
            /\ SymtabAt(b) + 24 * r + 4 < b.size}

\* Indices, from 1 on, of the records cut short by the end of the blob.
CutIndices(b) ==
    {r \in 1..(SymtabCount(b) - 1) : ~RecordPresent(b, r)}

Least(S) == CHOOSE r \in S : \A q \in S : r <= q

\* C21: for a blob with a valid signature, a symbol table and a string
\* table, parse_elf_symbol returns the name and the value of the function
\* symbol of lowest index >= 1, the name being the bytes at string-table
\* offset + st_name up to the first zero byte; record 0 is never returned;
\* with no function symbol of index >= 1 nothing is resolved.  (A record cut
\* short by the end of the blob ends the parse with an exception, which the
\* caller takes as unresolved.)
C21_FirstFunctionSymbol ==
    (parsed # None /\ HasTables(elf_data)) =>
        LET b == elf_data
            r == parsed[1]
            F == FunctionIndices(b)
            whole == {f \in F : \A q \in CutIndices(b) : f < q}
        IN  IF whole = {}
            THEN r.status # "ok"
            ELSE LET f == Least(whole)
                     at == SymtabAt(b) + 24 * f
                 IN  /\ f >= 1
                     /\ r.status = "ok"
                     /\ r.value = U64(b, at + 8)
                     /\ r.name = CString(b, StrtabAt(b) + ULE(b, at, 4))

\* A blob whose record 0 is typed as a function, whose record 1 is an
\* object and whose record 2 is the function "Bar": "Bar" is returned.
C21_Witness ==
    /\ parsed # None
    /\ HasTables(elf_data)
    /\ ByteAt(elf_data, SymtabAt(elf_data) + 4) % 16 = 2
    /\ FunctionIndices(elf_data) = {2}
    /\ parsed[1] = [status |-> "ok", name |-> NameBar, value |-> CodeAddrB]


(***************************************************************************)
(* Properties of find_kernel_base_by_mz_scan (checked under SpecMz).       *)
(* After an attempt that scanned, rip is its pointer, target its memory,   *)
(* priority_probed and probed the addresses it read.                       *)
(***************************************************************************)
Scanned == verified /\ attempt >= 1

PositivePriority == SelectSeq(priority_bases(rip[1]), LAMBDA a : a > 0)

PositiveSweep == {c \in potential_bases(rip[1]) : c > 0}

HoldsSignature(a) == ReadAt(target, a) = "MZ"

PriorityMatched ==
    \E k \in 1..Len(priority_probed) : HoldsSignature(priority_probed[k])

\* C22: within one attempt the priority addresses are read in their listed
\* order, then the sweep candidates in non-decreasing distance from the
\* pointer; the base returned is the first positive candidate read that
\* holds the signature and nothing is read after it; so with no priority
\* match the base has the least distance among the readable sweep candidates
\* that hold the signature.
C22_FirstMatchInProbeOrder ==
    Scanned =>
        LET p == rip[1]
            n == Len(priority_probed)
        IN  /\ priority_probed = SubSeq(PositivePriority, 1, n)
            /\ \A k \in 1..(n - 1) : ~HoldsSignature(priority_probed[k])
            /\ PriorityMatched => probed = {} /\ mz_ret = Some(priority_probed[n])
            /\ ~PriorityMatched =>
                /\ n = Len(PositivePriority)
                /\ probed \subseteq PositiveSweep
                /\ \A c \in probed, u \in PositiveSweep \ probed :
                        Distance(c, p) <= Distance(u, p)
                /\ mz_ret = None =>
                        /\ probed = PositiveSweep
                        /\ \A c \in probed : ~HoldsSignature(c)
                /\ mz_ret # None =>
                        /\ mz_ret[1] \in probed
                        /\ HoldsSignature(mz_ret[1])
                        /\ \A c \in probed \ {mz_ret[1]} :
                              /\ ~HoldsSignature(c)
                              /\ Distance(c, p) <= Distance(mz_ret[1], p)
                        /\ \A c \in PositiveSweep :
                              HoldsSignature(c) =>
                                  Distance(mz_ret[1], p) <= Distance(c, p)

\* The signature is at 0x7E20000 and at 0x7E70000 and the pointer at
\* 0x7E5A9C0: the sweep returns 0x7E70000, the nearer one, as its 86th read.
C22_Witness ==
    /\ Scanned
    /\ mz_phase = "done"
    /\ rip = Some(132491712)
    /\ target.mz = {132251648, 132579328}
    /\ HoldsSignature(132251648)
    /\ mz_ret = Some(132579328)
    /\ checked = 86

\* C23 as stated: an attempt that read more than 100 candidates and found
\* no signature is the last one.
C23_GivesUpAfter100 ==
    (Scanned /\ mz_ret = None /\ checked > 100) => mz_phase = "done"

\* C23, amended: an attempt that read more than 100 candidates and found no
\* signature is the last one unless its unreadable candidates exceed twice
\* its readable ones while attempts remain, and then it is retried.
C23_GivesUpUnlessErrorRate ==
    (Scanned /\ mz_ret = None /\ checked > 100) =>
        IF errors > checked * 2 /\ attempt < retries
        THEN mz_phase = "attempts"
        ELSE mz_phase = "done"

\* A first attempt that read 384 candidates and failed on 352: the call
\* has returned not-found with four attempts left.
C23_Witness ==
    /\ Scanned
    /\ mz_ret = None
    /\ checked = 384
    /\ errors = 352
    /\ attempt = 1
    /\ mz_phase = "done"

\* C24: an attempt without a match is followed by another only if its
\* unreadable candidates exceeded twice its readable ones, or it could not
\* read the pointer or memory at it; there are never more than retries
\* attempts; the delay before attempt k is 1 + k seconds, more before each
\* attempt than before the one preceding it.
C24_RetryOnlyOnErrorRate ==
    /\ (mz_phase = "attempts" /\ attempt >= 1) =>
            (~verified \/ errors > checked * 2)
    /\ attempt <= retries
    /\ Len(delays) = attempt
    /\ \A k \in 1..Len(delays) : delays[k] = 1 + (k - 1)
    /\ \A k \in 1..(Len(delays) - 1) : delays[k] < delays[k + 1]

\* Five attempts were made, the fourth having read 128 candidates and
\* failed on 608.
C24_Witness ==
    /\ attempt = retries
    /\ delays = <<1, 2, 3, 4, 5>>
    /\ mz_phase = "done"
    /\ Scanned
    /\ checked = 128
    /\ errors = 608
    /\ mz_ret = None

\* C25: the call returns, with a base or with not-found, whatever the
\* channel does: at most 10 warm-up probes; at most 3 recovery rounds, each
\* with at most 5 probes after the interrupt and, if memory is still
\* unreadable, one reconnect with at most 5 probes after it; at most
\* retries attempts; candidates are read only by an attempt that has just
\* read memory at the pointer.
C25_ScanTerminates ==
    /\ [](/\ warmup <= WarmupProbes
          /\ mz_phase = "warmup" => warmup < WarmupProbes
          /\ recovery_attempt < 3
          /\ probe_i <= 5
          /\ mz_phase \in {"recovery_probe", "reconnect_probe"} => probe_i < 5
          /\ reconnects <= 1
          /\ mz_phase \in {"recovery", "recovery_probe"} => reconnects = 0
          /\ mz_phase \in {"recovery", "recovery_probe", "reconnect",
                           "reconnect_probe"} => ~memory_ready
          /\ attempt <= retries
          /\ (priority_probed # <<>> \/ probed # {}) => verified
          /\ mz_ret # None => mz_phase = "done" /\ mz_ret[1] > 0)
    /\ <>(mz_phase = "done")

\* The call returned not-found after all its attempts although memory was
\* never readable before the attempt loop.
C25_Witness ==
    /\ mz_phase = "done"
    /\ ~memory_ready
    /\ attempt = retries
    /\ mz_ret = None


(***************************************************************************)
(* The publics loop, line by line (checked under SpecSyn).                 *)
(***************************************************************************)
\* The symbols of the file so far, as a set of (addr, size, name).
Collected(syms, data) == Range(syms) \cup Range(data)

\* C26: a public record that is dropped neither as a duplicate name nor as
\* a compiler-generated name takes its section:offset pair from the line
\* immediately after its own line, also when an equal line occurs earlier
\* in the dump: the step at line pos adds the symbol at the address of line
\* pos + 1 when that line carries an address in a known section, and adds
\* nothing otherwise.
C26_AddressFromFollowingLine ==
    [][(/\ phase = "publics"
        /\ pos' = pos + 1
        /\ lines'[pos + 1].tag = "S_PUB32"
        /\ lines'[pos + 1].name # <<>>
        /\ lines'[pos + 1].name \notin existing_names
        /\ ~Internal(lines'[pos + 1].name))
       => LET own == IF pos + 2 <= Len(lines') THEN Some(lines'[pos + 2])
                     ELSE None
          IN  Collected(symbols', data_symbols') =
                 Collected(symbols, data_symbols)
                   \cup (IF AddrKnown(sections, own)
                         THEN {<<SymbolAddr(sections, own[1]), 0,
                                 lines'[pos + 1].name>>}
                         ELSE {})]_vars


(***************************************************************************)
(* proton-jit-scan after a locate, and proton-jit-load (checked under      *)
(* SpecJit).                                                               *)
(***************************************************************************)
\* C27: proton-jit-scan scans whenever a base has been located, whatever
\* the base, 0x140000000 included; it refuses, reading nothing and leaving
\* the entry set as it is, only when no locate has succeeded.
C27_ScanWheneverLocated ==
    jit_last.cmd = "scan-refused" => (~located /\ reads = <<>>)

\* C28: with no scan and no clear in between, add-symbol-file succeeds at
\* most once for an entry: it is run only for an entry not yet loaded, and a
\* loaded entry stays as it is, no command reading, writing or loading
\* anything for it again; a loaded entry has its name and its code address,
\* and the file loaded for it is the one named by that code address.
C28_LoadedAtMostOnce ==
    /\ [](\A k \in 1..Len(jit_symbols) :
            jit_symbols[k].loaded =>
                jit_symbols[k].name # None /\ jit_symbols[k].code_addr # None)
    /\ [][jit_last'.cmd \notin {"scan", "clear"} =>
            /\ Len(jit_symbols') = Len(jit_symbols)
            /\ \A k \in 1..Len(jit_symbols) :
                /\ jit_symbols[k].loaded =>
                      /\ jit_symbols'[k] = jit_symbols[k]
                      /\ (pc = "load" /\ cursor = k) =>
                            /\ jit_last'.loaded = jit_last.loaded
                            /\ jit_last'.written = jit_last.written
                            /\ jit_last'.resolve = None
                /\ (~jit_symbols[k].loaded /\ jit_symbols'[k].loaded) =>
                      /\ pc = "load" /\ cursor = k
                      /\ jit_symbols[k].elf_addr \notin jit_last.loaded
                      /\ jit_last'.loaded =
                            jit_last.loaded \cup {jit_symbols[k].elf_addr}
                      /\ jit_symbols'[k].code_addr[1] \in jit_last'.written]_vars

\* A proton-jit-load over all entries has ended having loaded and written
\* nothing, an entry being loaded since an earlier command.
C28_Witness ==
    /\ jit_last.cmd = "load"
    /\ jit_last.pattern = <<>>
    /\ pc = "idle"
    /\ jit_last.loaded = {}
    /\ jit_last.written = {}
    /\ \E k \in 1..Len(jit_symbols) : jit_symbols[k].loaded

(***************************************************************************)
(* The watch of proton-connect (checked under Spec).                       *)
(***************************************************************************)
\* C29: when proton-connect returns after the watch has fired, the marker
\* matching or not, the watch it armed is removed.
C29_WatchRemovedOnReturn ==
    (/\ last.cmd = "connect"
     /\ last.arms = 1
     /\ last.outcome \in {"ok", "marker-mismatch"})
        => watches = 0

====
